---- MODULE Spec2Model ----
(***************************************************************************)
(* Auction state machines (timed ascending, single sealed bid), the bid    *)
(* validator and the command handler of the auction site, with the host's  *)
(* create_auction / place_bid request handlers.                            *)
(*                                                                         *)
(* Timestamps are integers (seconds), durations are integers, amounts are  *)
(* records [currency, value].  A Rust enum value is a record with a `tag`  *)
(* field naming the variant.                                               *)
(***************************************************************************)
EXTENDS Integers, Sequences, FiniteSets, TLC

(***************************************************************************)
(* Bounds of the model                                                     *)
(***************************************************************************)
\* timestamps carried by commands and passed to inc range over 0..MaxTime
MaxTime == 3
\* bid amounts range over 0..MaxValue
MaxValue == 2
\* at most MaxBids bids are accepted by one auction
MaxBids == 2

\* the longest time_frame of a sample auction
MaxFrame == 2
\* the longest user id and the longest user name that is written to the wire
MaxLen == 2

Times == 0..MaxTime
\* a deadline extended by time_frame can pass MaxTime
IncTimes == 0..(MaxTime + MaxFrame)
Values == 0..MaxValue
AuctionIds == {1, 2}

VARIABLES
    hash_keys,   \* the keys RandomState::new() hands to the next HashMap::new()
    app_state,   \* the Repository the caller of handle holds (the host's AppState)
    outcome,     \* what the last request's call of handle returned
    response,    \* the status of the host's last HTTP response
    sm_auction,  \* the auction whose state machine is driven directly
    sm_state,    \* that auction's AuctionState
    accepted,    \* the bids add_bid has accepted on it, most recent first
    op,          \* the last State operation applied to it, with its result
    command_log,    \* the commands a second run has still to apply
    replay_state,   \* the Repository of the second run of the command log
    replay_outcome, \* what the second run's last call of handle returned
    clock,          \* the host's wall clock, read by OffsetDateTime::now_utc()
    lock,           \* the request that holds the Mutex of the AppState
    requests,       \* the requests in flight: position, command, snapshot
    serial_state,   \* the Repository of the commands applied in lock order
    wire_command,   \* a Command that is written to the wire
    wire_text,      \* its encoding
    wire_decoded    \* what the encoding decodes to

replay_vars == <<command_log, replay_state, replay_outcome>>
host_vars == <<clock, lock, requests, serial_state>>
codec_vars == <<wire_command, wire_text, wire_decoded>>

vars == <<hash_keys, app_state, outcome, response,
          sm_auction, sm_state, accepted, op, replay_vars, host_vars,
          codec_vars>>

(***************************************************************************)
(* money.rs                                                                *)
(***************************************************************************)
Currency == {"VAC", "SEK", "DKK"}

\* position of the variant in the enum declaration: the derived Ord
CurrencyOrd(c) == CASE c = "VAC" -> 0 [] c = "SEK" -> 1 [] c = "DKK" -> 2

Amount_new(currency, value) == [currency |-> currency, value |-> value]

\* derived Ord of struct Amount { currency, value }: lexicographic by field
\* order; -1 / 0 / 1 for Less / Equal / Greater
Amount_cmp(a, b) ==
    IF CurrencyOrd(a.currency) < CurrencyOrd(b.currency) THEN -1
    ELSE IF CurrencyOrd(a.currency) > CurrencyOrd(b.currency) THEN 1
    ELSE IF a.value < b.value THEN -1
    ELSE IF a.value > b.value THEN 1
    ELSE 0

sek(value) == Amount_new("SEK", value)
vac(value) == Amount_new("VAC", value)

(***************************************************************************)
(* domain/core.rs                                                          *)
(***************************************************************************)
BuyerOrSeller(user_id, name) ==
    [tag |-> "BuyerOrSeller", user_id |-> user_id, name |-> name]
Support(user_id) == [tag |-> "Support", user_id |-> user_id]

user_id(user) == user.user_id

UserIds == {"Sample_Seller", "Buyer_1", "Buyer_2"}

\* Result<(), Errors>
Ok == [tag |-> "Ok"]
Err(tag, arg) == [tag |-> tag, arg |-> arg]
IsOk(result) == result.tag = "Ok"
IsErr(result, tag) == result.tag = tag

(***************************************************************************)
(* std HashMap<UserId, Bid>: the entries, and the hasher that fixes the    *)
(* order in which values() visits them.  The hasher is an order over the   *)
(* keys, drawn from the process's random keys when the map is created.     *)
(***************************************************************************)
HashOrders ==
    { <<"Sample_Seller", "Buyer_1", "Buyer_2">>,
      <<"Buyer_2", "Buyer_1", "Sample_Seller">> }

HashMap_new(hasher) == [hasher |-> hasher, entries |-> <<>>]
HashMap_contains_key(map, k) == k \in DOMAIN map.entries
HashMap_insert(map, k, v) ==
    [map EXCEPT !.entries =
        [x \in (DOMAIN map.entries) \cup {k} |-> IF x = k THEN v ELSE map.entries[x]]]
HashMap_len(map) == Cardinality(DOMAIN map.entries)

RECURSIVE HashMap_values_from(_, _)
HashMap_values_from(map, i) ==
    IF i > Len(map.hasher) THEN <<>>
    ELSE IF map.hasher[i] \in DOMAIN map.entries
         THEN <<map.entries[map.hasher[i]]>> \o HashMap_values_from(map, i + 1)
         ELSE HashMap_values_from(map, i + 1)

\* bids.values().cloned().collect::<Vec<_>>()
HashMap_values(map) == HashMap_values_from(map, 1)

(***************************************************************************)
(* domain/bids.rs                                                          *)
(***************************************************************************)
Bid(for_auction, bidder, at, bid_amount) ==
    [for_auction |-> for_auction, bidder |-> bidder, at |-> at,
     bid_amount |-> bid_amount]

(***************************************************************************)
(* domain/timed_ascending.rs                                               *)
(***************************************************************************)
TAOptions(reserve_price, min_raise, time_frame) ==
    [reserve_price |-> reserve_price, min_raise |-> min_raise,
     time_frame |-> time_frame]

default_options(currency) ==
    TAOptions(Amount_new(currency, 0), Amount_new(currency, 0), 0)

AwaitingStart(start, starting_expiry, options) ==
    [tag |-> "AwaitingStart", start |-> start,
     starting_expiry |-> starting_expiry, options |-> options]
OnGoing(bids, next_expiry, options) ==
    [tag |-> "OnGoing", bids |-> bids, next_expiry |-> next_expiry,
     options |-> options]
HasEnded(bids, expiry, options) ==
    [tag |-> "HasEnded", bids |-> bids, expiry |-> expiry, options |-> options]

ta_empty_state(start, starting_expiry, options) ==
    AwaitingStart(start, starting_expiry, options)

Max(a, b) == IF a >= b THEN a ELSE b

\* ta_inc with an ended auction re-opened when `now` precedes its expiry
ta_inc_reopens(self, now) ==
    CASE self.tag = "AwaitingStart" ->
            IF now > self.start
            THEN IF now < self.starting_expiry
                 THEN OnGoing(<<>>, self.starting_expiry, self.options)
                 ELSE HasEnded(<<>>, self.starting_expiry, self.options)
            ELSE self
      [] self.tag = "OnGoing" ->
            IF now < self.next_expiry
            THEN self
            ELSE HasEnded(self.bids, self.next_expiry, self.options)
      [] self.tag = "HasEnded" ->
            IF now < self.expiry
            THEN OnGoing(self.bids, self.expiry, self.options)
            ELSE self

\* ta_inc without the step from AwaitingStart straight to HasEnded
ta_inc_always_starts(self, now) ==
    CASE self.tag = "AwaitingStart" ->
            IF now > self.start
            THEN OnGoing(<<>>, self.starting_expiry, self.options)
            ELSE self
      [] self.tag = "OnGoing" ->
            IF now < self.next_expiry
            THEN self
            ELSE HasEnded(self.bids, self.next_expiry, self.options)
      [] self.tag = "HasEnded" -> self

\* ta_inc with the auction started at `now` equal to its start
ta_inc_starts_at_start(self, now) ==
    CASE self.tag = "AwaitingStart" ->
            IF now >= self.start
            THEN IF now < self.starting_expiry
                 THEN OnGoing(<<>>, self.starting_expiry, self.options)
                 ELSE HasEnded(<<>>, self.starting_expiry, self.options)
            ELSE self
      [] self.tag = "OnGoing" ->
            IF now < self.next_expiry
            THEN self
            ELSE HasEnded(self.bids, self.next_expiry, self.options)
      [] self.tag = "HasEnded" -> self

\* ta_inc with the bids dropped when the auction ends
ta_inc_ends_without_bids(self, now) ==
    CASE self.tag = "AwaitingStart" ->
            IF now > self.start
            THEN IF now < self.starting_expiry
                 THEN OnGoing(<<>>, self.starting_expiry, self.options)
                 ELSE HasEnded(<<>>, self.starting_expiry, self.options)
            ELSE self
      [] self.tag = "OnGoing" ->
            IF now < self.next_expiry
            THEN self
            ELSE HasEnded(<<>>, self.next_expiry, self.options)
      [] self.tag = "HasEnded" -> self

\* ta_inc with an auction that has no bid kept open past its deadline
ta_inc_waits_for_bid(self, now) ==
    CASE self.tag = "AwaitingStart" ->
            IF now > self.start
            THEN OnGoing(<<>>, self.starting_expiry, self.options)
            ELSE self
      [] self.tag = "OnGoing" ->
            IF now < self.next_expiry \/ self.bids = <<>>
            THEN self
            ELSE HasEnded(self.bids, self.next_expiry, self.options)
      [] self.tag = "HasEnded" -> self

ta_inc(self, now) ==
    CASE self.tag = "AwaitingStart" ->
            IF now > self.start
            THEN IF now < self.starting_expiry
                 THEN OnGoing(<<>>, self.starting_expiry, self.options)
                 ELSE HasEnded(<<>>, self.starting_expiry, self.options)
            ELSE self
      [] self.tag = "OnGoing" ->
            IF now < self.next_expiry
            THEN self
            ELSE HasEnded(self.bids, self.next_expiry, self.options)
      [] self.tag = "HasEnded" -> self

\* ta_add_bid with a bid on an ended auction rejected but kept in the list
ta_add_bid_records_late(self, bid) ==
    LET now == bid.at
        auction_id == bid.for_auction
        bid_amount == bid.bid_amount
        next == ta_inc(self, now)
    IN  CASE next.tag = "AwaitingStart" ->
                [state |-> next, result |-> Err("AuctionHasNotStarted", auction_id)]
          [] next.tag = "OnGoing" ->
                LET new_bids == <<bid>> \o next.bids
                    new_expiry == Max(next.next_expiry, now + next.options.time_frame)
                IN  IF next.bids = <<>>
                    THEN [state |-> OnGoing(new_bids, new_expiry, next.options),
                          result |-> Ok]
                    ELSE LET highest_bid == next.bids[1]
                             highest_amount == highest_bid.bid_amount
                             min_raise == next.options.min_raise
                         IN  IF bid_amount.value >= highest_amount.value + min_raise.value
                             THEN [state |-> OnGoing(new_bids, new_expiry, next.options),
                                   result |-> Ok]
                             ELSE [state |-> next,
                                   result |-> Err("MustPlaceBidOverHighestBid",
                                                  highest_amount)]
          [] next.tag = "HasEnded" ->
                [state |-> HasEnded(<<bid>> \o next.bids, next.expiry, next.options),
                 result |-> Err("AuctionHasEnded", auction_id)]

\* ta_add_bid with a raise that must exceed highest + min_raise
ta_add_bid_strict(self, bid) ==
    LET now == bid.at
        auction_id == bid.for_auction
        bid_amount == bid.bid_amount
        next == ta_inc(self, now)
    IN  CASE next.tag = "AwaitingStart" ->
                [state |-> next, result |-> Err("AuctionHasNotStarted", auction_id)]
          [] next.tag = "OnGoing" ->
                LET new_bids == <<bid>> \o next.bids
                    new_expiry == Max(next.next_expiry, now + next.options.time_frame)
                IN  IF next.bids = <<>>
                    THEN [state |-> OnGoing(new_bids, new_expiry, next.options),
                          result |-> Ok]
                    ELSE LET highest_bid == next.bids[1]
                             highest_amount == highest_bid.bid_amount
                             min_raise == next.options.min_raise
                         IN  IF bid_amount.value > highest_amount.value + min_raise.value
                             THEN [state |-> OnGoing(new_bids, new_expiry, next.options),
                                   result |-> Ok]
                             ELSE [state |-> next,
                                   result |-> Err("MustPlaceBidOverHighestBid",
                                                  highest_amount)]
          [] next.tag = "HasEnded" ->
                [state |-> next, result |-> Err("AuctionHasEnded", auction_id)]

\* ta_add_bid with the deadline set to the bid time plus time_frame
ta_add_bid_no_max(self, bid) ==
    LET now == bid.at
        auction_id == bid.for_auction
        bid_amount == bid.bid_amount
        next == ta_inc(self, now)
    IN  CASE next.tag = "AwaitingStart" ->
                [state |-> next, result |-> Err("AuctionHasNotStarted", auction_id)]
          [] next.tag = "OnGoing" ->
                LET new_bids == <<bid>> \o next.bids
                    new_expiry == now + next.options.time_frame
                IN  IF next.bids = <<>>
                    THEN [state |-> OnGoing(new_bids, new_expiry, next.options),
                          result |-> Ok]
                    ELSE LET highest_bid == next.bids[1]
                             highest_amount == highest_bid.bid_amount
                             min_raise == next.options.min_raise
                         IN  IF bid_amount.value >= highest_amount.value + min_raise.value
                             THEN [state |-> OnGoing(new_bids, new_expiry, next.options),
                                   result |-> Ok]
                             ELSE [state |-> next,
                                   result |-> Err("MustPlaceBidOverHighestBid",
                                                  highest_amount)]
          [] next.tag = "HasEnded" ->
                [state |-> next, result |-> Err("AuctionHasEnded", auction_id)]

\* ta_add_bid on the state as it stands, time not advanced to the bid's
\* timestamp
ta_add_bid_without_inc(self, bid) ==
    LET now == bid.at
        auction_id == bid.for_auction
        bid_amount == bid.bid_amount
        next == self
    IN  CASE next.tag = "AwaitingStart" ->
                [state |-> next, result |-> Err("AuctionHasNotStarted", auction_id)]
          [] next.tag = "OnGoing" ->
                LET new_bids == <<bid>> \o next.bids
                    new_expiry == Max(next.next_expiry, now + next.options.time_frame)
                IN  IF next.bids = <<>>
                    THEN [state |-> OnGoing(new_bids, new_expiry, next.options),
                          result |-> Ok]
                    ELSE LET highest_bid == next.bids[1]
                             highest_amount == highest_bid.bid_amount
                             min_raise == next.options.min_raise
                         IN  IF bid_amount.value >= highest_amount.value + min_raise.value
                             THEN [state |-> OnGoing(new_bids, new_expiry, next.options),
                                   result |-> Ok]
                             ELSE [state |-> next,
                                   result |-> Err("MustPlaceBidOverHighestBid",
                                                  highest_amount)]
          [] next.tag = "HasEnded" ->
                [state |-> next, result |-> Err("AuctionHasEnded", auction_id)]

\* ta_add_bid with the deadline extended by a bid that is too low
ta_add_bid_extends_on_reject(self, bid) ==
    LET now == bid.at
        auction_id == bid.for_auction
        bid_amount == bid.bid_amount
        next == ta_inc(self, now)
    IN  CASE next.tag = "AwaitingStart" ->
                [state |-> next, result |-> Err("AuctionHasNotStarted", auction_id)]
          [] next.tag = "OnGoing" ->
                LET new_bids == <<bid>> \o next.bids
                    new_expiry == Max(next.next_expiry, now + next.options.time_frame)
                IN  IF next.bids = <<>>
                    THEN [state |-> OnGoing(new_bids, new_expiry, next.options),
                          result |-> Ok]
                    ELSE LET highest_bid == next.bids[1]
                             highest_amount == highest_bid.bid_amount
                             min_raise == next.options.min_raise
                         IN  IF bid_amount.value >= highest_amount.value + min_raise.value
                             THEN [state |-> OnGoing(new_bids, new_expiry, next.options),
                                   result |-> Ok]
                             ELSE [state |-> OnGoing(next.bids, new_expiry, next.options),
                                   result |-> Err("MustPlaceBidOverHighestBid",
                                                  highest_amount)]
          [] next.tag = "HasEnded" ->
                [state |-> next, result |-> Err("AuctionHasEnded", auction_id)]

\* ta_add_bid with the deadline set to the earlier of the deadline in force
\* and the bid time plus time_frame
ta_add_bid_min_expiry(self, bid) ==
    LET now == bid.at
        auction_id == bid.for_auction
        bid_amount == bid.bid_amount
        next == ta_inc(self, now)
    IN  CASE next.tag = "AwaitingStart" ->
                [state |-> next, result |-> Err("AuctionHasNotStarted", auction_id)]
          [] next.tag = "OnGoing" ->
                LET new_bids == <<bid>> \o next.bids
                    new_expiry == IF next.next_expiry <= now + next.options.time_frame
                                  THEN next.next_expiry
                                  ELSE now + next.options.time_frame
                IN  IF next.bids = <<>>
                    THEN [state |-> OnGoing(new_bids, new_expiry, next.options),
                          result |-> Ok]
                    ELSE LET highest_bid == next.bids[1]
                             highest_amount == highest_bid.bid_amount
                             min_raise == next.options.min_raise
                         IN  IF bid_amount.value >= highest_amount.value + min_raise.value
                             THEN [state |-> OnGoing(new_bids, new_expiry, next.options),
                                   result |-> Ok]
                             ELSE [state |-> next,
                                   result |-> Err("MustPlaceBidOverHighestBid",
                                                  highest_amount)]
          [] next.tag = "HasEnded" ->
                [state |-> next, result |-> Err("AuctionHasEnded", auction_id)]

ta_add_bid(self, bid) ==
    LET now == bid.at
        auction_id == bid.for_auction
        bid_amount == bid.bid_amount
        next == ta_inc(self, now)
    IN  CASE next.tag = "AwaitingStart" ->
                [state |-> next, result |-> Err("AuctionHasNotStarted", auction_id)]
          [] next.tag = "OnGoing" ->
                LET new_bids == <<bid>> \o next.bids
                    new_expiry == Max(next.next_expiry, now + next.options.time_frame)
                IN  IF next.bids = <<>>
                    THEN [state |-> OnGoing(new_bids, new_expiry, next.options),
                          result |-> Ok]
                    ELSE LET highest_bid == next.bids[1]
                             highest_amount == highest_bid.bid_amount
                             min_raise == next.options.min_raise
                         IN  IF bid_amount.value >= highest_amount.value + min_raise.value
                             THEN [state |-> OnGoing(new_bids, new_expiry, next.options),
                                   result |-> Ok]
                             ELSE [state |-> next,
                                   result |-> Err("MustPlaceBidOverHighestBid",
                                                  highest_amount)]
          [] next.tag = "HasEnded" ->
                [state |-> next, result |-> Err("AuctionHasEnded", auction_id)]

ta_get_bids(self) ==
    CASE self.tag = "AwaitingStart" -> <<>>
      [] self.tag = "OnGoing" -> self.bids
      [] self.tag = "HasEnded" -> self.bids

None == [tag |-> "None"]
Some(v) == [tag |-> "Some", v |-> v]

\* ta_try_get_amount_and_winner with a top bid equal to the reserve winning
ta_try_get_amount_and_winner_at_reserve(self) ==
    IF self.tag = "HasEnded"
    THEN IF self.bids # <<>>
            /\ self.options.reserve_price.value <= self.bids[1].bid_amount.value
         THEN Some(<<self.bids[1].bid_amount, user_id(self.bids[1].bidder)>>)
         ELSE None
    ELSE None

\* ta_try_get_amount_and_winner with the leading bidder reported while the
\* auction is still going on
ta_try_get_amount_and_winner_while_ongoing(self) ==
    IF self.tag = "HasEnded" \/ self.tag = "OnGoing"
    THEN IF self.bids # <<>>
            /\ self.options.reserve_price.value < self.bids[1].bid_amount.value
         THEN Some(<<self.bids[1].bid_amount, user_id(self.bids[1].bidder)>>)
         ELSE None
    ELSE None

ta_try_get_amount_and_winner(self) ==
    IF self.tag = "HasEnded"
    THEN IF self.bids # <<>>
            /\ self.options.reserve_price.value < self.bids[1].bid_amount.value
         THEN Some(<<self.bids[1].bid_amount, user_id(self.bids[1].bidder)>>)
         ELSE None
    ELSE None

ta_has_ended(self) == self.tag = "HasEnded"

(***************************************************************************)
(* domain/single_sealed_bid.rs                                             *)
(***************************************************************************)
SBOptions == {"Blind", "Vickrey"}

AcceptingBids(bids, expiry, options) ==
    [tag |-> "AcceptingBids", bids |-> bids, expiry |-> expiry,
     options |-> options]
DisclosingBids(bids, expiry, options) ==
    [tag |-> "DisclosingBids", bids |-> bids, expiry |-> expiry,
     options |-> options]

ssb_empty_state(expiry, options) ==
    AcceptingBids(HashMap_new(hash_keys), expiry, options)

\* Vec::sort_by(|a, b| b.bid_amount.cmp(&a.bid_amount)): a stable sort, so
\* an element goes behind every element that does not compare after it
RECURSIVE sort_insert(_, _)
sort_insert(sorted, bid) ==
    IF sorted = <<>> THEN <<bid>>
    ELSE IF Amount_cmp(bid.bid_amount, Head(sorted).bid_amount) > 0
         THEN <<bid>> \o sorted
         ELSE <<Head(sorted)>> \o sort_insert(Tail(sorted), bid)

RECURSIVE sort_by_amount_desc(_)
sort_by_amount_desc(bids) ==
    IF bids = <<>> THEN <<>>
    ELSE sort_insert(sort_by_amount_desc(SubSeq(bids, 1, Len(bids) - 1)),
                     bids[Len(bids)])

\* ssb_inc with the bids disclosed only after the expiry
ssb_inc_after_expiry(self, now) ==
    CASE self.tag = "AcceptingBids" ->
            IF now > self.expiry
            THEN DisclosingBids(sort_by_amount_desc(HashMap_values(self.bids)),
                                self.expiry, self.options)
            ELSE self
      [] self.tag = "DisclosingBids" -> self

\* ssb_inc with the bids disclosed in the order the map yields them
ssb_inc_unsorted(self, now) ==
    CASE self.tag = "AcceptingBids" ->
            IF now >= self.expiry
            THEN DisclosingBids(HashMap_values(self.bids), self.expiry, self.options)
            ELSE self
      [] self.tag = "DisclosingBids" -> self

ssb_inc(self, now) ==
    CASE self.tag = "AcceptingBids" ->
            IF now >= self.expiry
            THEN DisclosingBids(sort_by_amount_desc(HashMap_values(self.bids)),
                                self.expiry, self.options)
            ELSE self
      [] self.tag = "DisclosingBids" -> self

\* ssb_add_bid with a bidder's later bid put in place of the earlier one
ssb_add_bid_replaces(self, bid) ==
    LET now == bid.at
        auction_id == bid.for_auction
        user == user_id(bid.bidder)
        next == ssb_inc(self, now)
    IN  CASE next.tag = "AcceptingBids" ->
                [state |-> AcceptingBids(HashMap_insert(next.bids, user, bid),
                                         next.expiry, next.options),
                 result |-> Ok]
          [] next.tag = "DisclosingBids" ->
                [state |-> next, result |-> Err("AuctionHasEnded", auction_id)]

\* ssb_add_bid with the bidder looked for in the first value the map yields
\* only
ssb_add_bid_checks_first_value(self, bid) ==
    LET now == bid.at
        auction_id == bid.for_auction
        user == user_id(bid.bidder)
        next == ssb_inc(self, now)
    IN  CASE next.tag = "AcceptingBids" ->
                IF /\ HashMap_values(next.bids) # <<>>
                   /\ user_id(HashMap_values(next.bids)[1].bidder) = user
                THEN [state |-> next, result |-> Err("AlreadyPlacedBid", <<>>)]
                ELSE [state |-> AcceptingBids(HashMap_insert(next.bids, user, bid),
                                              next.expiry, next.options),
                      result |-> Ok]
          [] next.tag = "DisclosingBids" ->
                [state |-> next, result |-> Err("AuctionHasEnded", auction_id)]

\* ssb_add_bid with bids refused as too early until MaxFrame before the expiry
ssb_add_bid_windowed(self, bid) ==
    LET now == bid.at
        auction_id == bid.for_auction
        user == user_id(bid.bidder)
        next == ssb_inc(self, now)
    IN  CASE next.tag = "AcceptingBids" ->
                IF now < next.expiry - MaxFrame
                THEN [state |-> next, result |-> Err("AuctionHasNotStarted", auction_id)]
                ELSE IF HashMap_contains_key(next.bids, user)
                THEN [state |-> next, result |-> Err("AlreadyPlacedBid", <<>>)]
                ELSE [state |-> AcceptingBids(HashMap_insert(next.bids, user, bid),
                                              next.expiry, next.options),
                      result |-> Ok]
          [] next.tag = "DisclosingBids" ->
                [state |-> next, result |-> Err("AuctionHasEnded", auction_id)]

ssb_add_bid(self, bid) ==
    LET now == bid.at
        auction_id == bid.for_auction
        user == user_id(bid.bidder)
        next == ssb_inc(self, now)
    IN  CASE next.tag = "AcceptingBids" ->
                IF HashMap_contains_key(next.bids, user)
                THEN [state |-> next, result |-> Err("AlreadyPlacedBid", <<>>)]
                ELSE [state |-> AcceptingBids(HashMap_insert(next.bids, user, bid),
                                              next.expiry, next.options),
                      result |-> Ok]
          [] next.tag = "DisclosingBids" ->
                [state |-> next, result |-> Err("AuctionHasEnded", auction_id)]

\* ssb_get_bids with the recorded bids returned while bids are accepted
ssb_get_bids_while_accepting(self) ==
    IF self.tag = "DisclosingBids" THEN self.bids ELSE HashMap_values(self.bids)

ssb_get_bids(self) ==
    IF self.tag = "DisclosingBids" THEN self.bids ELSE <<>>

\* ssb_try_get_amount_and_winner with a Vickrey winner paying the own bid
ssb_try_get_amount_and_winner_first_price(self) ==
    CASE self.tag = "AcceptingBids" -> None
      [] self.tag = "DisclosingBids" ->
            IF self.bids = <<>> THEN None
            ELSE Some(<<self.bids[1].bid_amount, user_id(self.bids[1].bidder)>>)

\* ssb_try_get_amount_and_winner with a Blind winner paying the second bid
ssb_try_get_amount_and_winner_second_price(self) ==
    CASE self.tag = "AcceptingBids" -> None
      [] self.tag = "DisclosingBids" ->
            IF self.bids = <<>> THEN None
            ELSE IF Len(self.bids) = 1
                 THEN Some(<<self.bids[1].bid_amount, user_id(self.bids[1].bidder)>>)
                 ELSE Some(<<self.bids[2].bid_amount, user_id(self.bids[1].bidder)>>)

ssb_try_get_amount_and_winner(self) ==
    CASE self.tag = "AcceptingBids" -> None
      [] self.tag = "DisclosingBids" ->
            IF self.bids = <<>> THEN None
            ELSE CASE self.options = "Vickrey" ->
                        IF Len(self.bids) = 1
                        THEN Some(<<self.bids[1].bid_amount, user_id(self.bids[1].bidder)>>)
                        ELSE Some(<<self.bids[2].bid_amount, user_id(self.bids[1].bidder)>>)
                   [] self.options = "Blind" ->
                        Some(<<self.bids[1].bid_amount, user_id(self.bids[1].bidder)>>)

ssb_has_ended(self) ==
    CASE self.tag = "AcceptingBids" -> FALSE
      [] self.tag = "DisclosingBids" -> TRUE

(***************************************************************************)
(* domain/auctions.rs                                                      *)
(***************************************************************************)
TimedAscending(opts) == [tag |-> "TimedAscending", opts |-> opts]
SingleSealedBid(opts) == [tag |-> "SingleSealedBid", opts |-> opts]

Auction(auction_id, starts_at, title, expiry, seller, typ, auction_currency) ==
    [auction_id |-> auction_id, starts_at |-> starts_at, title |-> title,
     expiry |-> expiry, seller |-> seller, typ |-> typ,
     auction_currency |-> auction_currency]

\* validate_bid with the bidder compared to the seller as a whole user, not
\* by id
validate_bid_compares_users(bid, auction) ==
    IF bid.bidder = auction.seller
    THEN Err("SellerCannotPlaceBids", <<user_id(bid.bidder), auction.auction_id>>)
    ELSE IF bid.bid_amount.currency # auction.auction_currency
         THEN Err("CurrencyConversion", auction.auction_currency)
         ELSE Ok

\* validate_bid without the currency check
validate_bid_any_currency(bid, auction) ==
    IF user_id(bid.bidder) = user_id(auction.seller)
    THEN Err("SellerCannotPlaceBids", <<user_id(bid.bidder), auction.auction_id>>)
    ELSE Ok

validate_bid(bid, auction) ==
    IF user_id(bid.bidder) = user_id(auction.seller)
    THEN Err("SellerCannotPlaceBids", <<user_id(bid.bidder), auction.auction_id>>)
    ELSE IF bid.bid_amount.currency # auction.auction_currency
         THEN Err("CurrencyConversion", auction.auction_currency)
         ELSE Ok

\* enum AuctionState: the wrapped state machine is in field `state`
AuctionState(tag, state) == [tag |-> tag, state |-> state]

empty_state(auction) ==
    CASE auction.typ.tag = "SingleSealedBid" ->
            AuctionState("SingleSealedBid",
                         ssb_empty_state(auction.expiry, auction.typ.opts))
      [] auction.typ.tag = "TimedAscending" ->
            AuctionState("TimedAscending",
                         ta_empty_state(auction.starts_at, auction.expiry,
                                        auction.typ.opts))

inc(self, now) ==
    CASE self.tag = "SingleSealedBid" ->
            AuctionState("SingleSealedBid", ssb_inc(self.state, now))
      [] self.tag = "TimedAscending" ->
            AuctionState("TimedAscending", ta_inc(self.state, now))

add_bid(bid, self) ==
    CASE self.tag = "SingleSealedBid" ->
            LET r == ssb_add_bid(self.state, bid)
            IN  [state |-> AuctionState("SingleSealedBid", r.state),
                 result |-> r.result]
      [] self.tag = "TimedAscending" ->
            LET r == ta_add_bid(self.state, bid)
            IN  [state |-> AuctionState("TimedAscending", r.state),
                 result |-> r.result]

get_bids(self) ==
    CASE self.tag = "SingleSealedBid" -> ssb_get_bids(self.state)
      [] self.tag = "TimedAscending" -> ta_get_bids(self.state)

try_get_amount_and_winner(self) ==
    CASE self.tag = "SingleSealedBid" -> ssb_try_get_amount_and_winner(self.state)
      [] self.tag = "TimedAscending" -> ta_try_get_amount_and_winner(self.state)

has_ended(self) ==
    CASE self.tag = "SingleSealedBid" -> ssb_has_ended(self.state)
      [] self.tag = "TimedAscending" -> ta_has_ended(self.state)

(***************************************************************************)
(* domain/mod.rs                                                           *)
(***************************************************************************)
AddAuction(timestamp, auction) ==
    [tag |-> "AddAuction", timestamp |-> timestamp, auction |-> auction]
PlaceBid(timestamp, bid) ==
    [tag |-> "PlaceBid", timestamp |-> timestamp, bid |-> bid]
AuctionAdded(timestamp, auction) ==
    [tag |-> "AuctionAdded", timestamp |-> timestamp, auction |-> auction]
BidAccepted(timestamp, bid) ==
    [tag |-> "BidAccepted", timestamp |-> timestamp, bid |-> bid]

\* Repository = HashMap<AuctionId, (Auction, AuctionState)>: a function from
\* the keys present to the pair <<auction, state>>
EmptyRepository == <<>>
Repository_insert(repository, k, v) ==
    [x \in (DOMAIN repository) \cup {k} |-> IF x = k THEN v ELSE repository[x]]

\* handle with the new state stored before bid_result is looked at
handle_commit_before_check(command, repository) ==
    CASE command.tag = "AddAuction" ->
            LET auction_id == command.auction.auction_id
            IN  IF auction_id \notin DOMAIN repository
                THEN [result |-> Ok,
                      success |-> AuctionAdded(command.timestamp, command.auction),
                      repository |-> Repository_insert(repository, auction_id,
                                        <<command.auction, empty_state(command.auction)>>)]
                ELSE [result |-> Err("AuctionAlreadyExists", auction_id),
                      success |-> None,
                      repository |-> repository]
      [] command.tag = "PlaceBid" ->
            LET auction_id == command.bid.for_auction
            IN  IF auction_id \in DOMAIN repository
                THEN LET auction == repository[auction_id][1]
                         state == repository[auction_id][2]
                         valid == validate_bid(command.bid, auction)
                         added == add_bid(command.bid, state)
                         stored == Repository_insert(repository, auction_id,
                                                     <<auction, added.state>>)
                     IN  IF ~IsOk(valid)
                         THEN [result |-> valid, success |-> None,
                               repository |-> repository]
                         ELSE IF ~IsOk(added.result)
                              THEN [result |-> added.result, success |-> None,
                                    repository |-> stored]
                              ELSE [result |-> Ok,
                                    success |-> BidAccepted(command.timestamp, command.bid),
                                    repository |-> stored]
                ELSE [result |-> Err("UnknownAuction", auction_id),
                      success |-> None,
                      repository |-> repository]

\* handle with AddAuction inserting without the contains_key test
handle_insert_unchecked(command, repository) ==
    CASE command.tag = "AddAuction" ->
            LET auction_id == command.auction.auction_id
            IN  [result |-> Ok,
                 success |-> AuctionAdded(command.timestamp, command.auction),
                 repository |-> Repository_insert(repository, auction_id,
                                   <<command.auction, empty_state(command.auction)>>)]
      [] command.tag = "PlaceBid" ->
            LET auction_id == command.bid.for_auction
            IN  IF auction_id \in DOMAIN repository
                THEN LET auction == repository[auction_id][1]
                         state == repository[auction_id][2]
                         valid == validate_bid(command.bid, auction)
                         added == add_bid(command.bid, state)
                     IN  IF ~IsOk(valid)
                         THEN [result |-> valid, success |-> None,
                               repository |-> repository]
                         ELSE IF ~IsOk(added.result)
                              THEN [result |-> added.result, success |-> None,
                                    repository |-> repository]
                              ELSE [result |-> Ok,
                                    success |-> BidAccepted(command.timestamp, command.bid),
                                    repository |-> Repository_insert(repository, auction_id,
                                                      <<auction, added.state>>)]
                ELSE [result |-> Err("UnknownAuction", auction_id),
                      success |-> None,
                      repository |-> repository]

\* handle with an absent auction reported as one that has not started
handle_unknown_as_not_started(command, repository) ==
    CASE command.tag = "AddAuction" ->
            LET auction_id == command.auction.auction_id
            IN  IF auction_id \notin DOMAIN repository
                THEN [result |-> Ok,
                      success |-> AuctionAdded(command.timestamp, command.auction),
                      repository |-> Repository_insert(repository, auction_id,
                                        <<command.auction, empty_state(command.auction)>>)]
                ELSE [result |-> Err("AuctionAlreadyExists", auction_id),
                      success |-> None,
                      repository |-> repository]
      [] command.tag = "PlaceBid" ->
            LET auction_id == command.bid.for_auction
            IN  IF auction_id \in DOMAIN repository
                THEN LET auction == repository[auction_id][1]
                         state == repository[auction_id][2]
                         valid == validate_bid(command.bid, auction)
                         added == add_bid(command.bid, state)
                     IN  IF ~IsOk(valid)
                         THEN [result |-> valid, success |-> None,
                               repository |-> repository]
                         ELSE IF ~IsOk(added.result)
                              THEN [result |-> added.result, success |-> None,
                                    repository |-> repository]
                              ELSE [result |-> Ok,
                                    success |-> BidAccepted(command.timestamp, command.bid),
                                    repository |-> Repository_insert(repository, auction_id,
                                                      <<auction, added.state>>)]
                ELSE [result |-> Err("AuctionHasNotStarted", auction_id),
                      success |-> None,
                      repository |-> repository]

\* handle with BidAccepted stamped with the bid's time, not the command's
handle_bid_timestamp(command, repository) ==
    CASE command.tag = "AddAuction" ->
            LET auction_id == command.auction.auction_id
            IN  IF auction_id \notin DOMAIN repository
                THEN [result |-> Ok,
                      success |-> AuctionAdded(command.timestamp, command.auction),
                      repository |-> Repository_insert(repository, auction_id,
                                        <<command.auction, empty_state(command.auction)>>)]
                ELSE [result |-> Err("AuctionAlreadyExists", auction_id),
                      success |-> None,
                      repository |-> repository]
      [] command.tag = "PlaceBid" ->
            LET auction_id == command.bid.for_auction
            IN  IF auction_id \in DOMAIN repository
                THEN LET auction == repository[auction_id][1]
                         state == repository[auction_id][2]
                         valid == validate_bid(command.bid, auction)
                         added == add_bid(command.bid, state)
                     IN  IF ~IsOk(valid)
                         THEN [result |-> valid, success |-> None,
                               repository |-> repository]
                         ELSE IF ~IsOk(added.result)
                              THEN [result |-> added.result, success |-> None,
                                    repository |-> repository]
                              ELSE [result |-> Ok,
                                    success |-> BidAccepted(command.bid.at, command.bid),
                                    repository |-> Repository_insert(repository, auction_id,
                                                      <<auction, added.state>>)]
                ELSE [result |-> Err("UnknownAuction", auction_id),
                      success |-> None,
                      repository |-> repository]

\* handle with the bid given to the state machine before it is validated
handle_validates_after(command, repository) ==
    CASE command.tag = "AddAuction" ->
            LET auction_id == command.auction.auction_id
            IN  IF auction_id \notin DOMAIN repository
                THEN [result |-> Ok,
                      success |-> AuctionAdded(command.timestamp, command.auction),
                      repository |-> Repository_insert(repository, auction_id,
                                        <<command.auction, empty_state(command.auction)>>)]
                ELSE [result |-> Err("AuctionAlreadyExists", auction_id),
                      success |-> None,
                      repository |-> repository]
      [] command.tag = "PlaceBid" ->
            LET auction_id == command.bid.for_auction
            IN  IF auction_id \in DOMAIN repository
                THEN LET auction == repository[auction_id][1]
                         state == repository[auction_id][2]
                         valid == validate_bid(command.bid, auction)
                         added == add_bid(command.bid, state)
                     IN  IF ~IsOk(added.result)
                         THEN [result |-> added.result, success |-> None,
                               repository |-> repository]
                         ELSE IF ~IsOk(valid)
                              THEN [result |-> valid, success |-> None,
                                    repository |-> repository]
                              ELSE [result |-> Ok,
                                    success |-> BidAccepted(command.timestamp, command.bid),
                                    repository |-> Repository_insert(repository, auction_id,
                                                      <<auction, added.state>>)]
                ELSE [result |-> Err("UnknownAuction", auction_id),
                      success |-> None,
                      repository |-> repository]

\* handle with the entry of an auction removed when a bid finds it ended
handle_drops_ended(command, repository) ==
    CASE command.tag = "AddAuction" ->
            LET auction_id == command.auction.auction_id
            IN  IF auction_id \notin DOMAIN repository
                THEN [result |-> Ok,
                      success |-> AuctionAdded(command.timestamp, command.auction),
                      repository |-> Repository_insert(repository, auction_id,
                                        <<command.auction, empty_state(command.auction)>>)]
                ELSE [result |-> Err("AuctionAlreadyExists", auction_id),
                      success |-> None,
                      repository |-> repository]
      [] command.tag = "PlaceBid" ->
            LET auction_id == command.bid.for_auction
            IN  IF auction_id \in DOMAIN repository
                THEN LET auction == repository[auction_id][1]
                         state == repository[auction_id][2]
                         valid == validate_bid(command.bid, auction)
                         added == add_bid(command.bid, state)
                     IN  IF ~IsOk(valid)
                         THEN [result |-> valid, success |-> None,
                               repository |-> repository]
                         ELSE IF ~IsOk(added.result)
                              THEN [result |-> added.result, success |-> None,
                                    repository |->
                                        IF added.result.tag = "AuctionHasEnded"
                                        THEN [k \in (DOMAIN repository) \ {auction_id}
                                                |-> repository[k]]
                                        ELSE repository]
                              ELSE [result |-> Ok,
                                    success |-> BidAccepted(command.timestamp, command.bid),
                                    repository |-> Repository_insert(repository, auction_id,
                                                      <<auction, added.state>>)]
                ELSE [result |-> Err("UnknownAuction", auction_id),
                      success |-> None,
                      repository |-> repository]

\* handle with the state returned by add_bid stored whatever bid_result is
handle_ignores_bid_result(command, repository) ==
    CASE command.tag = "AddAuction" ->
            LET auction_id == command.auction.auction_id
            IN  IF auction_id \notin DOMAIN repository
                THEN [result |-> Ok,
                      success |-> AuctionAdded(command.timestamp, command.auction),
                      repository |-> Repository_insert(repository, auction_id,
                                        <<command.auction, empty_state(command.auction)>>)]
                ELSE [result |-> Err("AuctionAlreadyExists", auction_id),
                      success |-> None,
                      repository |-> repository]
      [] command.tag = "PlaceBid" ->
            LET auction_id == command.bid.for_auction
            IN  IF auction_id \in DOMAIN repository
                THEN LET auction == repository[auction_id][1]
                         state == repository[auction_id][2]
                         valid == validate_bid(command.bid, auction)
                         added == add_bid(command.bid, state)
                     IN  IF ~IsOk(valid)
                         THEN [result |-> valid, success |-> None,
                               repository |-> repository]
                         ELSE [result |-> Ok,
                               success |-> BidAccepted(command.timestamp, command.bid),
                               repository |-> Repository_insert(repository, auction_id,
                                                 <<auction, added.state>>)]
                ELSE [result |-> Err("UnknownAuction", auction_id),
                      success |-> None,
                      repository |-> repository]

\* handle with the bid given to the state machine without validate_bid
handle_skips_validation(command, repository) ==
    CASE command.tag = "AddAuction" ->
            LET auction_id == command.auction.auction_id
            IN  IF auction_id \notin DOMAIN repository
                THEN [result |-> Ok,
                      success |-> AuctionAdded(command.timestamp, command.auction),
                      repository |-> Repository_insert(repository, auction_id,
                                        <<command.auction, empty_state(command.auction)>>)]
                ELSE [result |-> Err("AuctionAlreadyExists", auction_id),
                      success |-> None,
                      repository |-> repository]
      [] command.tag = "PlaceBid" ->
            LET auction_id == command.bid.for_auction
            IN  IF auction_id \in DOMAIN repository
                THEN LET auction == repository[auction_id][1]
                         state == repository[auction_id][2]
                         added == add_bid(command.bid, state)
                     IN  IF ~IsOk(added.result)
                         THEN [result |-> added.result, success |-> None,
                               repository |-> repository]
                         ELSE [result |-> Ok,
                               success |-> BidAccepted(command.timestamp, command.bid),
                               repository |-> Repository_insert(repository, auction_id,
                                                 <<auction, added.state>>)]
                ELSE [result |-> Err("UnknownAuction", auction_id),
                      success |-> None,
                      repository |-> repository]

\* handle(command, mut repository).  `repository` in the value returned is
\* the function's local map when it returns: what Ok hands back, and what is
\* dropped with Err.
handle(command, repository) ==
    CASE command.tag = "AddAuction" ->
            LET auction_id == command.auction.auction_id
            IN  IF auction_id \notin DOMAIN repository
                THEN [result |-> Ok,
                      success |-> AuctionAdded(command.timestamp, command.auction),
                      repository |-> Repository_insert(repository, auction_id,
                                        <<command.auction, empty_state(command.auction)>>)]
                ELSE [result |-> Err("AuctionAlreadyExists", auction_id),
                      success |-> None,
                      repository |-> repository]
      [] command.tag = "PlaceBid" ->
            LET auction_id == command.bid.for_auction
            IN  IF auction_id \in DOMAIN repository
                THEN LET auction == repository[auction_id][1]
                         state == repository[auction_id][2]
                         valid == validate_bid(command.bid, auction)
                         added == add_bid(command.bid, state)
                     IN  IF ~IsOk(valid)
                         THEN [result |-> valid, success |-> None,
                               repository |-> repository]
                         ELSE IF ~IsOk(added.result)
                              THEN [result |-> added.result, success |-> None,
                                    repository |-> repository]
                              ELSE [result |-> Ok,
                                    success |-> BidAccepted(command.timestamp, command.bid),
                                    repository |-> Repository_insert(repository, auction_id,
                                                      <<auction, added.state>>)]
                ELSE [result |-> Err("UnknownAuction", auction_id),
                      success |-> None,
                      repository |-> repository]

(***************************************************************************)
(* Sample inputs                                                           *)
(***************************************************************************)
sample_seller == BuyerOrSeller("Sample_Seller", "Seller")
buyer_1 == BuyerOrSeller("Buyer_1", "Buyer 1")
buyer_2 == BuyerOrSeller("Buyer_2", "Buyer 2")
\* a support user who carries the seller's id
support_seller == Support("Sample_Seller")

Users == {sample_seller, buyer_1, buyer_2, support_seller}
Bidders == {buyer_1, buyer_2, support_seller}

BidAmounts == {sek(v) : v \in Values} \cup {vac(MaxValue)}

\* the options of the sample timed ascending auctions: default_options, a
\* reserve with a raise and a time frame, and a negative raise with a
\* negative time frame
SampleTAOptions ==
    { TAOptions(sek(0), sek(0), 0),
      TAOptions(sek(1), sek(1), MaxFrame),
      TAOptions(sek(0), sek(-1), -1) }

SampleTypes ==
    { TimedAscending(o) : o \in SampleTAOptions }
        \cup { SingleSealedBid(o) : o \in SBOptions }

\* auctions that start at 1 and expire at 3, and one whose expiry precedes
\* its start
SampleAuctions ==
    { Auction(1, 1, "auction", 3, sample_seller, typ, "SEK") : typ \in SampleTypes }
        \cup { Auction(1, 3, "auction", 2, sample_seller,
                       TimedAscending(TAOptions(sek(0), sek(0), MaxFrame)), "SEK") }

\* bids at every time: every amount from one bidder, a tie and another
\* currency from a second, and a bid that names another auction
SampleBids ==
    { Bid(1, buyer_1, t, sek(v)) : t \in Times, v \in Values }
        \cup { Bid(1, buyer_2, t, a) : t \in Times, a \in {sek(1), vac(MaxValue)} }
        \cup { Bid(2, support_seller, t, sek(MaxValue)) : t \in Times }

(***************************************************************************)
(* The state machine of one auction, driven through the State operations   *)
(***************************************************************************)
\* no call of handle was made
NoOutcome == [command |-> "None", result |-> None]

\* no command log is replayed
ReplayIdle ==
    /\ command_log = <<>>
    /\ replay_state = <<>>
    /\ replay_outcome = NoOutcome

\* nothing is on the wire
CodecIdle ==
    /\ wire_command = None
    /\ wire_text = None
    /\ wire_decoded = None

\* no request is in flight
HostIdle ==
    /\ clock = 0
    /\ lock = [tag |-> "None"]
    /\ requests = <<>>
    /\ serial_state = <<>>

\* only a sealed-bid auction creates a map, so only there do the keys vary
StateInit ==
    /\ sm_auction \in SampleAuctions
    /\ hash_keys \in IF sm_auction.typ.tag = "SingleSealedBid"
                     THEN HashOrders
                     ELSE {<<"Sample_Seller", "Buyer_1", "Buyer_2">>}
    /\ sm_state = empty_state(sm_auction)
    /\ accepted = <<>>
    /\ op = None
    /\ app_state = EmptyRepository
    /\ outcome = NoOutcome
    /\ response = None
    /\ ReplayIdle
    /\ CodecIdle
    /\ HostIdle

State_inc(now) ==
    /\ sm_state' = inc(sm_state, now)
    /\ op' = [tag |-> "inc"]
    /\ UNCHANGED <<hash_keys, app_state, outcome, response,
                   sm_auction, accepted, replay_vars, host_vars, codec_vars>>

State_add_bid(bid) ==
    LET r == add_bid(bid, sm_state)
    IN  /\ IsOk(r.result) => Len(accepted) < MaxBids
        /\ sm_state' = r.state
        /\ accepted' = IF IsOk(r.result) THEN <<bid>> \o accepted ELSE accepted
        /\ op' = [tag |-> "add_bid", result |-> r.result]
        /\ UNCHANGED <<hash_keys, app_state, outcome, response, sm_auction,
                       replay_vars, host_vars, codec_vars>>

StateNext ==
    \/ \E now \in IncTimes : State_inc(now)
    \/ \E bid \in SampleBids : State_add_bid(bid)

StateSpec == StateInit /\ [][StateNext]_vars

(***************************************************************************)
(* web/types.rs, web/app.rs: the host.  A request handler takes the        *)
(* repository lock, runs handle on a clone of the repository and stores    *)
(* the returned repository on success; all of that is one step.  `now` is  *)
(* the wall clock read before the lock is taken, so requests can reach     *)
(* handle in any order of their timestamps.                                *)
(***************************************************************************)
AddAuctionRequest(id, starts_at, title, ends_at, currency, typ) ==
    [id |-> id, starts_at |-> starts_at, title |-> title, ends_at |-> ends_at,
     currency |-> currency, typ |-> typ]

unwrap_or(option, default) == IF option.tag = "Some" THEN option.v ELSE default

to_auction(self, seller) ==
    LET currency == unwrap_or(self.currency, "VAC")
        typ == unwrap_or(self.typ, TimedAscending(default_options(currency)))
    IN  Auction(self.id, self.starts_at, self.title, self.ends_at, seller, typ,
                currency)

init_app_state == EmptyRepository

\* the bids held by a stored state, accepted ones only
StoredBids(s) ==
    IF s.state.tag = "AcceptingBids" THEN HashMap_len(s.state.bids)
    ELSE Len(get_bids(s))

RECURSIVE SumBids(_, _)
SumBids(repo, ids) ==
    IF ids = {} THEN 0
    ELSE LET id == CHOOSE x \in ids : TRUE
         IN  StoredBids(repo[id][2]) + SumBids(repo, ids \ {id})

\* the number of bids the repository holds
TotalBids(repo) == SumBids(repo, DOMAIN repo)

\* requests for auction 1: the defaults (VAC, default_options), an ascending
\* auction with a raise and a time frame, and a Vickrey auction; for auction
\* 2: a Blind auction
SampleRequests ==
    { AddAuctionRequest(1, 1, "auction", 3, None, None),
      AddAuctionRequest(1, 1, "auction", 3, Some("SEK"),
                        Some(TimedAscending(TAOptions(sek(0), sek(1), MaxFrame)))),
      AddAuctionRequest(1, 1, "auction", 3, Some("SEK"),
                        Some(SingleSealedBid("Vickrey"))),
      AddAuctionRequest(2, 1, "auction", 3, Some("SEK"),
                        Some(SingleSealedBid("Blind"))) }

\* the users who create the sample auctions
AuthSellers == {None, Some(sample_seller)}
\* the users who place bids: the seller and two buyers
AuthBidders == {None, Some(sample_seller), Some(buyer_1), Some(buyer_2)}
\* the wall clock of a request: before the start, inside the window, at the end
HostTimes == {0, 2, MaxTime}
\* BidRequest.amount
HostAmounts == {sek(1), sek(MaxValue), vac(MaxValue)}

Init ==
    /\ hash_keys \in HashOrders
    /\ app_state = init_app_state
    /\ outcome = NoOutcome
    /\ response = None
    /\ ReplayIdle
    /\ CodecIdle
    /\ HostIdle
    /\ sm_auction = None
    /\ sm_state = None
    /\ accepted = <<>>
    /\ op = None

create_auction(auth, auction_req, now) ==
    /\ IF auth = None
       THEN /\ response' = "Unauthorized"
            /\ outcome' = NoOutcome
            /\ UNCHANGED <<app_state, hash_keys>>
       ELSE LET auction == to_auction(auction_req, auth.v)
                cmd == AddAuction(now, auction)
                r == handle(cmd, app_state)
            IN  /\ outcome' = [command |-> cmd.tag, result |-> r.result]
                /\ IF IsOk(r.result)
                   THEN /\ app_state' = r.repository
                        /\ response' = "Ok"
                        /\ IF auction.typ.tag = "SingleSealedBid"
                           THEN hash_keys' \in HashOrders
                           ELSE UNCHANGED hash_keys
                   ELSE /\ response' = "BadRequest"
                        /\ UNCHANGED <<app_state, hash_keys>>
    /\ UNCHANGED <<sm_auction, sm_state, accepted, op, replay_vars, host_vars,
                   codec_vars>>

place_bid(auth, auction_id, amount, now) ==
    /\ IF auth = None
       THEN /\ response' = "Unauthorized"
            /\ outcome' = NoOutcome
            /\ UNCHANGED app_state
       ELSE LET bid == Bid(auction_id, auth.v, now, amount)
                cmd == PlaceBid(now, bid)
                r == handle(cmd, app_state)
            IN  /\ IsOk(r.result) => TotalBids(app_state) < MaxBids
                /\ outcome' = [command |-> cmd.tag, result |-> r.result]
                /\ IF IsOk(r.result)
                   THEN /\ app_state' = r.repository
                        /\ response' = "Ok"
                   ELSE /\ response' = "BadRequest"
                        /\ UNCHANGED app_state
    /\ UNCHANGED <<hash_keys, sm_auction, sm_state, accepted, op,
                   replay_vars, host_vars, codec_vars>>

Next ==
    \/ \E auth \in AuthSellers, req \in SampleRequests, now \in {0, MaxTime} :
            create_auction(auth, req, now)
    \/ \E auth \in AuthBidders, id \in AuctionIds, amount \in HostAmounts, now \in HostTimes :
            place_bid(auth, id, amount, now)

Spec == Init /\ [][Next]_vars

(***************************************************************************)
(* Commands handle is tried on in every reachable repository               *)
(***************************************************************************)
\* auction 3 is never added
CommandAuctionIds == AuctionIds \cup {3}

CommandAuctions ==
    { to_auction(req, seller) : req \in SampleRequests, seller \in {sample_seller, buyer_1} }
        \cup { Auction(id, 1, "other", 3, buyer_2,
                       TimedAscending(TAOptions(sek(1), sek(0), 0)), "SEK") :
               id \in CommandAuctionIds }

AddAuctionCommands ==
    { AddAuction(t, a) : t \in {0, MaxTime}, a \in CommandAuctions }

\* the command's timestamp need not be the bid's
PlaceBidCommands ==
    { PlaceBid(t, Bid(id, u, at, a)) :
        t \in {0, MaxTime}, id \in CommandAuctionIds,
        u \in {sample_seller, support_seller, buyer_2}, at \in Times,
        a \in HostAmounts }

(***************************************************************************)
(* The host with requests in flight: a request builds its command from the *)
(* wall clock, takes the Mutex of the AppState, runs handle on a clone of  *)
(* the repository and writes the result back before the guard is dropped.  *)
(***************************************************************************)
\* the server's workers, each with at most one request in flight
Workers == {1, 2}

IdleRequest == [pc |-> "idle"]

\* the requests the workers receive: an ascending auction without a raise
\* and a Blind auction in SEK, and an ascending auction that names no
\* currency
HostRequests ==
    { AddAuctionRequest(1, 1, "auction", 3, Some("SEK"),
                        Some(TimedAscending(TAOptions(sek(0), sek(0), 0)))),
      AddAuctionRequest(2, 1, "auction", 3, Some("SEK"),
                        Some(SingleSealedBid("Blind"))),
      AddAuctionRequest(2, 1, "auction", 3, None,
                        Some(TimedAscending(TAOptions(sek(0), sek(1), 0)))) }
HostSellers == {sample_seller}
HostBidders == {buyer_1, buyer_2}
HostBidAmounts == {sek(1)}

\* the PlaceBid commands built and not yet handled
InFlightBids ==
    Cardinality({w \in Workers : /\ requests[w].pc # "idle"
                                 /\ requests[w].command.tag = "PlaceBid"})

HostInit ==
    /\ hash_keys = <<"Sample_Seller", "Buyer_1", "Buyer_2">>
    /\ app_state = init_app_state
    /\ outcome = NoOutcome
    /\ response = None
    /\ ReplayIdle
    /\ CodecIdle
    /\ clock = 0
    /\ lock = None
    /\ requests = [w \in Workers |-> IdleRequest]
    /\ serial_state = EmptyRepository
    /\ sm_auction = None
    /\ sm_state = None
    /\ accepted = <<>>
    /\ op = None

\* the wall clock advances
tick ==
    /\ clock < MaxTime
    /\ clock' = clock + 1
    /\ UNCHANGED <<hash_keys, app_state, outcome, response, sm_auction, sm_state,
                   accepted, op, replay_vars, lock, requests, serial_state,
                   codec_vars>>

\* the first free worker takes the next request
FreeWorker(w) ==
    /\ requests[w].pc = "idle"
    /\ \A v \in Workers : requests[v].pc = "idle" => w <= v

\* create_auction's closure for the authenticated user, up to the call of
\* lock()
create_auction_command(w, user, auction_req) ==
    /\ FreeWorker(w)
    /\ LET auction == to_auction(auction_req, user)
           now == clock
       IN  requests' = [requests EXCEPT ![w] =
                [pc |-> "built", command |-> AddAuction(now, auction)]]
    /\ UNCHANGED <<hash_keys, app_state, outcome, response, sm_auction, sm_state,
                   accepted, op, replay_vars, clock, lock, serial_state,
                   codec_vars>>

\* place_bid's closure for the authenticated user, up to the call of lock()
place_bid_command(w, user, auction_id, amount) ==
    /\ FreeWorker(w)
    /\ TotalBids(app_state) + InFlightBids < MaxBids
    /\ LET now == clock
           bid == Bid(auction_id, user, now, amount)
       IN  requests' = [requests EXCEPT ![w] =
                [pc |-> "built", command |-> PlaceBid(now, bid)]]
    /\ UNCHANGED <<hash_keys, app_state, outcome, response, sm_auction, sm_state,
                   accepted, op, replay_vars, clock, lock, serial_state,
                   codec_vars>>

\* data.lock().unwrap() with no exclusion: the guard is handed out while
\* another request holds it
lock_acquire_shared(w) ==
    /\ requests[w].pc = "built"
    /\ lock' = Some(w)
    /\ requests' = [requests EXCEPT ![w] =
            [pc |-> "locked", command |-> requests[w].command,
             snapshot |-> app_state]]
    /\ LET r == handle(requests[w].command, serial_state)
       IN  serial_state' = IF IsOk(r.result) THEN r.repository ELSE serial_state
    /\ UNCHANGED <<hash_keys, app_state, outcome, response, sm_auction, sm_state,
                   accepted, op, replay_vars, clock, codec_vars>>

\* data.lock().unwrap() and app_state.clone(): the request gets the guard
\* when no other holds it; the commands are applied to serial_state in the
\* order of this step
lock_acquire(w) ==
    /\ requests[w].pc = "built"
    /\ lock = None
    /\ lock' = Some(w)
    /\ requests' = [requests EXCEPT ![w] =
            [pc |-> "locked", command |-> requests[w].command,
             snapshot |-> app_state]]
    /\ LET r == handle(requests[w].command, serial_state)
       IN  serial_state' = IF IsOk(r.result) THEN r.repository ELSE serial_state
    /\ UNCHANGED <<hash_keys, app_state, outcome, response, sm_auction, sm_state,
                   accepted, op, replay_vars, clock, codec_vars>>

\* handle on the clone, the write of the new repository, the response, and
\* the drop of the guard
handle_and_commit(w) ==
    /\ requests[w].pc = "locked"
    /\ LET r == handle(requests[w].command, requests[w].snapshot)
       IN  /\ outcome' = [command |-> requests[w].command.tag, result |-> r.result]
           /\ IF IsOk(r.result)
              THEN /\ app_state' = r.repository
                   /\ response' = "Ok"
              ELSE /\ response' = "BadRequest"
                   /\ UNCHANGED app_state
    /\ lock' = None
    /\ requests' = [requests EXCEPT ![w] = IdleRequest]
    /\ UNCHANGED <<hash_keys, sm_auction, sm_state, accepted, op, replay_vars,
                   clock, serial_state, codec_vars>>

HostNext ==
    \/ tick
    \/ \E w \in Workers, user \in HostSellers, req \in HostRequests :
            create_auction_command(w, user, req)
    \/ \E w \in Workers, user \in HostBidders, id \in AuctionIds,
          amount \in HostBidAmounts :
            place_bid_command(w, user, id, amount)
    \/ \E w \in Workers : lock_acquire(w)
    \/ \E w \in Workers : handle_and_commit(w)

HostSpec == HostInit /\ [][HostNext]_vars

(***************************************************************************)
(* The wire forms of the values a Command holds.  A string is a sequence   *)
(* of one-character strings; format! is concatenation, str::split and      *)
(* str::parse are computed as the standard library computes them.          *)
(***************************************************************************)
Decoded(v) == [tag |-> "Ok", v |-> v]
DecodeErr(msg) == [tag |-> "Err", msg |-> msg]

\* char::is_alphabetic, on the characters the model writes
is_alphabetic(c) ==
    c \in {"A", "B", "C", "D", "E", "K", "O", "S", "V", "a", "c", "d", "e",
           "g", "h", "i", "k", "l", "n", "o", "p", "r", "s", "t", "u", "y"}

is_digit(c) == c \in {"0", "1", "2", "3", "4", "5", "6", "7", "8", "9"}

digit_char(d) ==
    CASE d = 0 -> "0" [] d = 1 -> "1" [] d = 2 -> "2" [] d = 3 -> "3"
      [] d = 4 -> "4" [] d = 5 -> "5" [] d = 6 -> "6" [] d = 7 -> "7"
      [] d = 8 -> "8" [] d = 9 -> "9"

digit_value(c) == CHOOSE d \in 0..9 : digit_char(d) = c

\* the decimal digits of n >= 0
RECURSIVE u64_to_string(_)
u64_to_string(n) ==
    IF n < 10 THEN <<digit_char(n)>>
    ELSE u64_to_string(n \div 10) \o <<digit_char(n % 10)>>

\* Display for i64
i64_to_string(n) ==
    IF n < 0 THEN <<"-">> \o u64_to_string(0 - n) ELSE u64_to_string(n)

\* the value of a sequence of digits, most significant first
RECURSIVE digits_value(_)
digits_value(s) ==
    IF s = <<>> THEN 0
    ELSE 10 * digits_value(SubSeq(s, 1, Len(s) - 1)) + digit_value(s[Len(s)])

\* str::parse::<i64>: an optional sign, then one digit or more
i64_parse(s) ==
    LET signed == s # <<>> /\ s[1] \in {"-", "+"}
        digits == IF signed THEN Tail(s) ELSE s
    IN  IF digits = <<>> \/ \E i \in 1..Len(digits) : ~is_digit(digits[i])
        THEN DecodeErr("ParseIntError")
        ELSE IF signed /\ s[1] = "-" THEN Decoded(0 - digits_value(digits))
        ELSE Decoded(digits_value(digits))

\* str::split(sep): the pieces of s between the occurrences of sep
RECURSIVE str_split(_, _)
str_split(s, sep) ==
    IF \A i \in 1..Len(s) : s[i] # sep THEN <<s>>
    ELSE LET at == CHOOSE i \in 1..Len(s) :
                       s[i] = sep /\ \A j \in 1..(i - 1) : s[j] # sep
         IN  <<SubSeq(s, 1, at - 1)>>
                 \o str_split(SubSeq(s, at + 1, Len(s)), sep)

\* money.rs, Display and FromStr for Currency
Currency_to_string(c) ==
    CASE c = "VAC" -> <<"V", "A", "C">>
      [] c = "SEK" -> <<"S", "E", "K">>
      [] c = "DKK" -> <<"D", "K", "K">>

Currency_from_str(s) ==
    IF \E c \in Currency : Currency_to_string(c) = s
    THEN Decoded(CHOOSE c \in Currency : Currency_to_string(c) = s)
    ELSE DecodeErr("Unknown currency")

\* money.rs, Display and FromStr for Amount
Amount_to_string(self) ==
    Currency_to_string(self.currency) \o i64_to_string(self.value)

Amount_from_str(s) ==
    LET currency_end ==
            IF \A i \in 1..Len(s) : is_alphabetic(s[i]) THEN Len(s)
            ELSE (CHOOSE i \in 1..Len(s) :
                      ~is_alphabetic(s[i])
                          /\ \A j \in 1..(i - 1) : is_alphabetic(s[j])) - 1
        currency == Currency_from_str(SubSeq(s, 1, currency_end))
        value == i64_parse(SubSeq(s, currency_end + 1, Len(s)))
    IN  IF currency_end = 0 THEN DecodeErr("Invalid amount format: no currency")
        ELSE IF ~IsOk(currency) THEN currency
        ELSE IF ~IsOk(value) THEN DecodeErr("Invalid amount value")
        ELSE Decoded(Amount_new(currency.v, value.v))

\* domain/core.rs, Display and Deserialize for User
User_to_string(self) ==
    CASE self.tag = "BuyerOrSeller" ->
            <<"B", "u", "y", "e", "r", "O", "r", "S", "e", "l", "l", "e", "r">>
                \o <<"|">> \o self.user_id \o <<"|">> \o self.name
      [] self.tag = "Support" ->
            <<"S", "u", "p", "p", "o", "r", "t">> \o <<"|">> \o self.user_id

User_deserialize(text) ==
    LET parts == str_split(text, "|")
    IN  IF Len(parts) = 3
              /\ parts[1] = <<"B", "u", "y", "e", "r", "O", "r", "S", "e",
                              "l", "l", "e", "r">>
        THEN Decoded(BuyerOrSeller(parts[2], parts[3]))
        ELSE IF Len(parts) = 2
              /\ parts[1] = <<"S", "u", "p", "p", "o", "r", "t">>
        THEN Decoded(Support(parts[2]))
        ELSE DecodeErr("parsing User failed, could not interpret values")

\* Duration::seconds and Duration::num_seconds: every time frame the program
\* builds is a whole number of seconds, which is what the model holds
Duration_seconds(n) == n
Duration_num_seconds(d) == d

\* domain/timed_ascending.rs, Display and FromStr for Options
TAOptions_to_string(self) ==
    <<"E", "n", "g", "l", "i", "s", "h">>
        \o <<"|">> \o Amount_to_string(self.reserve_price)
        \o <<"|">> \o Amount_to_string(self.min_raise)
        \o <<"|">> \o i64_to_string(Duration_num_seconds(self.time_frame))

TAOptions_from_str(s) ==
    LET parts == str_split(s, "|")
    IN  IF Len(parts) # 4 \/ parts[1] # <<"E", "n", "g", "l", "i", "s", "h">>
        THEN DecodeErr("Invalid TimedAscending options format")
        ELSE LET reserve_price == Amount_from_str(parts[2])
                 min_raise == Amount_from_str(parts[3])
                 time_frame_seconds == i64_parse(parts[4])
             IN  IF ~IsOk(reserve_price) THEN DecodeErr("Invalid reserve price")
                 ELSE IF ~IsOk(min_raise) THEN DecodeErr("Invalid min raise")
                 ELSE IF ~IsOk(time_frame_seconds)
                 THEN DecodeErr("Invalid time frame")
                 ELSE Decoded(TAOptions(reserve_price.v, min_raise.v,
                                        Duration_seconds(time_frame_seconds.v)))

\* domain/single_sealed_bid.rs, Display and FromStr for Options
SBOptions_to_string(self) ==
    CASE self = "Blind" -> <<"B", "l", "i", "n", "d">>
      [] self = "Vickrey" -> <<"V", "i", "c", "k", "r", "e", "y">>

SBOptions_from_str(s) ==
    IF \E o \in {"Blind", "Vickrey"} : SBOptions_to_string(o) = s
    THEN Decoded(CHOOSE o \in {"Blind", "Vickrey"} : SBOptions_to_string(o) = s)
    ELSE DecodeErr("Unknown SingleSealedBid option")

\* domain/auctions.rs, Display and FromStr for AuctionType
AuctionType_to_string(self) ==
    CASE self.tag = "TimedAscending" -> TAOptions_to_string(self.opts)
      [] self.tag = "SingleSealedBid" -> SBOptions_to_string(self.opts)

AuctionType_from_str(s) ==
    IF IsOk(TAOptions_from_str(s))
    THEN Decoded(TimedAscending(TAOptions_from_str(s).v))
    ELSE IF IsOk(SBOptions_from_str(s))
    THEN Decoded(SingleSealedBid(SBOptions_from_str(s).v))
    ELSE DecodeErr("Unknown auction type")

\* #[serde(with = "time::serde::rfc3339")]: the text of an instant, which in
\* the model is the decimal count of its seconds
rfc3339_serialize(t) == i64_to_string(t)
rfc3339_deserialize(s) == i64_parse(s)

\* domain/bids.rs, the derived Serialize and Deserialize of Bid: a JSON
\* object with the fields auction, user, at, amount
Bid_serialize(self) ==
    [auction |-> self.for_auction,
     user |-> User_to_string(self.bidder),
     at |-> rfc3339_serialize(self.at),
     amount |-> Amount_to_string(self.bid_amount)]

Bid_deserialize(json) ==
    LET bidder == User_deserialize(json.user)
        at == rfc3339_deserialize(json.at)
        bid_amount == Amount_from_str(json.amount)
    IN  IF ~IsOk(bidder) THEN bidder
        ELSE IF ~IsOk(at) THEN at
        ELSE IF ~IsOk(bid_amount) THEN bid_amount
        ELSE Decoded(Bid(json.auction, bidder.v, at.v, bid_amount.v))

\* domain/auctions.rs, the derived Serialize and Deserialize of Auction: a
\* JSON object with the fields id, startsAt, title, expiry, user, type,
\* currency
Auction_serialize(self) ==
    [id |-> self.auction_id,
     startsAt |-> rfc3339_serialize(self.starts_at),
     title |-> self.title,
     expiry |-> rfc3339_serialize(self.expiry),
     user |-> User_to_string(self.seller),
     type |-> AuctionType_to_string(self.typ),
     currency |-> Currency_to_string(self.auction_currency)]

Auction_deserialize(json) ==
    LET starts_at == rfc3339_deserialize(json.startsAt)
        expiry == rfc3339_deserialize(json.expiry)
        seller == User_deserialize(json.user)
        typ == AuctionType_from_str(json.type)
        auction_currency == Currency_from_str(json.currency)
    IN  IF ~IsOk(starts_at) THEN starts_at
        ELSE IF ~IsOk(expiry) THEN expiry
        ELSE IF ~IsOk(seller) THEN seller
        ELSE IF ~IsOk(typ) THEN typ
        ELSE IF ~IsOk(auction_currency) THEN auction_currency
        ELSE Decoded(Auction(json.id, starts_at.v, json.title, expiry.v,
                             seller.v, typ.v, auction_currency.v))

\* domain/commands.rs, the derived Serialize and Deserialize of Command: a
\* JSON object tagged by its field $type, here the field type
Command_serialize(self) ==
    CASE self.tag = "AddAuction" ->
            [type |-> "AddAuction", at |-> rfc3339_serialize(self.timestamp),
             auction |-> Auction_serialize(self.auction)]
      [] self.tag = "PlaceBid" ->
            [type |-> "PlaceBid", at |-> rfc3339_serialize(self.timestamp),
             bid |-> Bid_serialize(self.bid)]

Command_deserialize(json) ==
    LET timestamp == rfc3339_deserialize(json.at)
    IN  IF ~IsOk(timestamp) THEN timestamp
        ELSE CASE json.type = "AddAuction" ->
                    LET auction == Auction_deserialize(json.auction)
                    IN  IF ~IsOk(auction) THEN auction
                        ELSE Decoded(AddAuction(timestamp.v, auction.v))
               [] json.type = "PlaceBid" ->
                    LET bid == Bid_deserialize(json.bid)
                    IN  IF ~IsOk(bid) THEN bid
                        ELSE Decoded(PlaceBid(timestamp.v, bid.v))

(***************************************************************************)
(* persistence/json_file.rs: a Command is written to the file and read     *)
(* back.                                                                   *)
(***************************************************************************)
\* the strings of user ids and names: every string of at most MaxLen
\* characters over a letter and the separator
RECURSIVE StringsOfLen(_)
StringsOfLen(n) ==
    IF n = 0 THEN {<<>>}
    ELSE {s \o <<c>> : s \in StringsOfLen(n - 1), c \in {"a", "|"}}

WireStrings == UNION {StringsOfLen(n) : n \in 0..MaxLen}

WireUsers ==
    {BuyerOrSeller(id, name) : id \in WireStrings, name \in WireStrings}
        \cup {Support(id) : id \in WireStrings}

WireAmounts ==
    {Amount_new(currency, value) :
        currency \in Currency, value \in {0 - 12, 0, MaxValue}}

WireTypes ==
    {TimedAscending(TAOptions(reserve_price, min_raise, time_frame)) :
        reserve_price \in WireAmounts, min_raise \in {sek(0), sek(MaxValue)},
        time_frame \in {0, MaxFrame}}
        \cup {SingleSealedBid(options) : options \in SBOptions}

WireCommands ==
    {AddAuction(0, Auction(1, 0, "auction", MaxTime, seller, typ, "SEK")) :
        seller \in WireUsers, typ \in WireTypes}
        \cup {PlaceBid(MaxTime, Bid(1, bidder, MaxTime, bid_amount)) :
                bidder \in WireUsers, bid_amount \in WireAmounts}

CodecInit ==
    /\ hash_keys = <<"Sample_Seller", "Buyer_1", "Buyer_2">>
    /\ app_state = EmptyRepository
    /\ outcome = NoOutcome
    /\ response = None
    /\ ReplayIdle
    /\ CodecIdle
    /\ HostIdle
    /\ sm_auction = None
    /\ sm_state = None
    /\ accepted = <<>>
    /\ op = None

\* write_commands truncates the file and writes the encoding of the command;
\* a run writes one command
write_commands(command) ==
    /\ wire_command = None
    /\ wire_command' = command
    /\ wire_text' = Some(Command_serialize(command))
    /\ wire_decoded' = None
    /\ UNCHANGED <<app_state, hash_keys, outcome, response, sm_auction,
                   sm_state, accepted, op, replay_vars, host_vars>>

\* read_commands decodes what the file holds
read_commands ==
    /\ wire_text # None
    /\ wire_decoded = None
    /\ wire_decoded' = Command_deserialize(wire_text.v)
    /\ UNCHANGED <<app_state, hash_keys, outcome, response, sm_auction,
                   sm_state, accepted, op, replay_vars, host_vars,
                   wire_command, wire_text>>

CodecNext ==
    \/ \E command \in WireCommands : write_commands(command)
    \/ read_commands

CodecSpec == CodecInit /\ [][CodecNext]_vars

Keys(repo) == DOMAIN repo

(***************************************************************************)
(* Two runs of one command log: the first run applies a command with       *)
(* handle, the second run applies the same command later, in a process     *)
(* whose maps have other hash keys.                                        *)
(***************************************************************************)
\* HashMap's PartialEq: the same entries, whatever the hashers
HashMap_eq(a, b) == a.entries = b.entries

\* the derived PartialEq of SingleSealedBidState and TimedAscendingState
AuctionState_eq(a, b) ==
    IF /\ a.tag = "SingleSealedBid" /\ b.tag = "SingleSealedBid"
       /\ a.state.tag = "AcceptingBids" /\ b.state.tag = "AcceptingBids"
    THEN /\ HashMap_eq(a.state.bids, b.state.bids)
         /\ a.state.expiry = b.state.expiry
         /\ a.state.options = b.state.options
    ELSE a = b

Repository_eq(a, b) ==
    /\ DOMAIN a = DOMAIN b
    /\ \A k \in DOMAIN a :
          /\ a[k][1] = b[k][1]
          /\ AuctionState_eq(a[k][2], b[k][2])

\* the commands of the log: the sample auctions added by the seller, and
\* bids of two buyers before and after the expiry
ReplayCommands ==
    { AddAuction(0, to_auction(req, sample_seller)) : req \in SampleRequests }
        \cup { PlaceBid(t, Bid(id, u, t, a)) :
                 t \in {0, MaxTime}, id \in AuctionIds, u \in {buyer_1, buyer_2},
                 a \in {sek(1), sek(MaxValue)} }

ReplayInit ==
    /\ hash_keys \in HashOrders
    /\ app_state = EmptyRepository
    /\ outcome = NoOutcome
    /\ response = None
    /\ ReplayIdle
    /\ CodecIdle
    /\ HostIdle
    /\ sm_auction = None
    /\ sm_state = None
    /\ accepted = <<>>
    /\ op = None

\* the first run handles a command and appends it to the log
handle_command(command) ==
    LET r == handle(command, app_state)
    IN  /\ command_log = <<>>
        /\ (command.tag = "PlaceBid" /\ IsOk(r.result)) => TotalBids(app_state) < MaxBids
        /\ app_state' = IF IsOk(r.result) THEN r.repository ELSE app_state
        /\ outcome' = [command |-> command.tag, result |-> r.result]
        /\ command_log' = <<command>>
        /\ hash_keys' \in HashOrders
        /\ UNCHANGED <<response, sm_auction, sm_state, accepted, op,
                       replay_state, replay_outcome, host_vars, codec_vars>>

\* the second run handles the next command of the log
replay_command ==
    /\ command_log # <<>>
    /\ LET command == Head(command_log)
           r == handle(command, replay_state)
       IN  /\ replay_state' = IF IsOk(r.result) THEN r.repository ELSE replay_state
           /\ replay_outcome' = [command |-> command.tag, result |-> r.result]
    /\ command_log' = Tail(command_log)
    /\ hash_keys' \in HashOrders
    /\ UNCHANGED <<app_state, outcome, response, sm_auction, sm_state, accepted,
                   op, host_vars, codec_vars>>

ReplayNext ==
    \/ \E command \in ReplayCommands : handle_command(command)
    \/ replay_command

ReplaySpec == ReplayInit /\ [][ReplayNext]_vars

(***************************************************************************)
(* C1: when handle returns an error the repository is the one it was       *)
(* given: no entry added, no stored state changed, not even advanced to    *)
(* the bid's time; and a host request that ends in an error leaves the     *)
(* shared repository unchanged.                                            *)
(***************************************************************************)
C1_HandleErrorKeepsRepository ==
    \A c \in AddAuctionCommands \cup PlaceBidCommands :
        LET r == handle(c, app_state)
        IN  ~IsOk(r.result) => r.repository = app_state

C1_ErrorLeavesRepositoryUnchanged ==
    /\ [] C1_HandleErrorKeepsRepository
    /\ [][~IsOk(outcome'.result) => app_state' = app_state]_vars

\* a bid was rejected by add_bid as too late on an auction whose stored
\* state has not ended: the advance to the bid's time was not stored
C1_Witness ==
    /\ outcome.command = "PlaceBid"
    /\ outcome.result.tag = "AuctionHasEnded"
    /\ response = "BadRequest"
    /\ ~has_ended(app_state[outcome.result.arg][2])

(***************************************************************************)
(* C2: AddAuction fails with AuctionAlreadyExists(id) exactly when the id  *)
(* is a key; otherwise it returns AuctionAdded{timestamp, auction} and the *)
(* repository plus the entry id -> (auction, initial state).               *)
(***************************************************************************)
InitialStateOf(a, s) ==
    CASE a.typ.tag = "TimedAscending" ->
            /\ s.tag = "TimedAscending"
            /\ s.state.tag = "AwaitingStart"
            /\ s.state.start = a.starts_at
            /\ s.state.starting_expiry = a.expiry
            /\ s.state.options = a.typ.opts
      [] a.typ.tag = "SingleSealedBid" ->
            /\ s.tag = "SingleSealedBid"
            /\ s.state.tag = "AcceptingBids"
            /\ DOMAIN s.state.bids.entries = {}
            /\ s.state.expiry = a.expiry
            /\ s.state.options = a.typ.opts

C2_AddAuction ==
    \A c \in AddAuctionCommands :
        LET r == handle(c, app_state)
            id == c.auction.auction_id
        IN  IF id \in Keys(app_state)
            THEN /\ r.result.tag = "AuctionAlreadyExists"
                 /\ r.result.arg = id
            ELSE /\ IsOk(r.result)
                 /\ r.success = AuctionAdded(c.timestamp, c.auction)
                 /\ Keys(r.repository) = Keys(app_state) \cup {id}
                 /\ \A k \in Keys(app_state) : r.repository[k] = app_state[k]
                 /\ r.repository[id][1] = c.auction
                 /\ InitialStateOf(c.auction, r.repository[id][2])

\* a second create_auction for an id already present was refused
C2_Witness ==
    /\ outcome.command = "AddAuction"
    /\ outcome.result.tag = "AuctionAlreadyExists"
    /\ outcome.result.arg \in Keys(app_state)
    /\ TotalBids(app_state) > 0

(***************************************************************************)
(* C3: PlaceBid for an id that is not a key fails with UnknownAuction(id), *)
(* whatever the bidder, currency, amount and timestamps.                   *)
(***************************************************************************)
C3_UnknownAuction ==
    \A c \in PlaceBidCommands :
        c.bid.for_auction \notin Keys(app_state) =>
            LET r == handle(c, app_state)
            IN  /\ r.result.tag = "UnknownAuction"
                /\ r.result.arg = c.bid.for_auction

\* a bid for an absent auction was refused while another auction exists
C3_Witness ==
    /\ outcome.command = "PlaceBid"
    /\ outcome.result.tag = "UnknownAuction"
    /\ outcome.result.arg \notin Keys(app_state)
    /\ Keys(app_state) # {}

(***************************************************************************)
(* C4: a PlaceBid that succeeds returns BidAccepted with the command's     *)
(* timestamp and bid, and a repository that differs only in the state      *)
(* under bid.for_auction, which is the state add_bid returned.             *)
(***************************************************************************)
C4_PlaceBidSuccess ==
    \A c \in PlaceBidCommands :
        LET r == handle(c, app_state)
            id == c.bid.for_auction
        IN  IsOk(r.result) =>
                /\ r.success = BidAccepted(c.timestamp, c.bid)
                /\ Keys(r.repository) = Keys(app_state)
                /\ \A k \in Keys(app_state) \ {id} : r.repository[k] = app_state[k]
                /\ r.repository[id][1] = app_state[id][1]
                /\ r.repository[id][2] = add_bid(c.bid, app_state[id][2]).state
                /\ r.repository[id][2] # app_state[id][2]

\* a bid was accepted while the repository holds two auctions
C4_Witness ==
    /\ outcome.command = "PlaceBid"
    /\ IsOk(outcome.result)
    /\ response = "Ok"
    /\ Cardinality(Keys(app_state)) = 2
    /\ TotalBids(app_state) > 0

(***************************************************************************)
(* C5: on a state that has ended (HasEnded, DisclosingBids) add_bid fails  *)
(* with AuctionHasEnded(bid.for_auction) for every bid and returns the     *)
(* same state; no bid is recorded after the end.                           *)
(***************************************************************************)
C5_EndedRejectsEveryBid ==
    has_ended(sm_state) =>
        \A bid \in SampleBids :
            LET r == add_bid(bid, sm_state)
            IN  /\ r.result.tag = "AuctionHasEnded"
                /\ r.result.arg = bid.for_auction
                /\ r.state = sm_state
                /\ get_bids(r.state) = get_bids(sm_state)

C5_NoBidAfterEnd ==
    /\ [] C5_EndedRejectsEveryBid
    /\ [][has_ended(sm_state) =>
            /\ get_bids(sm_state') = get_bids(sm_state)
            /\ accepted' = accepted]_vars

\* a bid was refused on an ended auction that holds bids
C5_Witness ==
    /\ op.tag = "add_bid"
    /\ op.result.tag = "AuctionHasEnded"
    /\ has_ended(sm_state)
    /\ get_bids(sm_state) # <<>>

(***************************************************************************)
(* C6: once has_ended is true it stays true under every later inc, with    *)
(* any time, and every later add_bid.                                      *)
(***************************************************************************)
C6_EndedStaysEndedUnderInc ==
    has_ended(sm_state) =>
        /\ \A t \in IncTimes : has_ended(inc(sm_state, t))
        /\ \A bid \in SampleBids : has_ended(add_bid(bid, sm_state).state)

C6_EndedIsFinal ==
    /\ [] C6_EndedStaysEndedUnderInc
    /\ [][has_ended(sm_state) => has_ended(sm_state')]_vars

\* inc was applied and the auction, which holds bids, is ended
C6_Witness ==
    /\ op.tag = "inc"
    /\ has_ended(sm_state)
    /\ get_bids(sm_state) # <<>>

(***************************************************************************)
(* C7: inc is idempotent: inc(inc(s, t), t) = inc(s, t) for every state    *)
(* and time.                                                               *)
(***************************************************************************)
C7_IncIdempotent ==
    \A t \in IncTimes : inc(inc(sm_state, t), t) = inc(sm_state, t)

\* inc was applied to an auction that holds bids
C7_Witness ==
    /\ op.tag = "inc"
    /\ Len(accepted) >= 2

(***************************************************************************)
(* C8: in OnGoing (after the advance to bid.at) add_bid accepts the bid    *)
(* iff there is no earlier bid or its amount is at least the head's amount *)
(* plus min_raise; a refused bid gets MustPlaceBidOverHighestBid(head's    *)
(* amount).                                                                *)
(***************************************************************************)
C8_RaiseEnforced ==
    sm_state.tag = "TimedAscending" =>
        \A bid \in SampleBids :
            LET next == inc(sm_state, bid.at).state
                r == add_bid(bid, sm_state)
            IN  next.tag = "OnGoing" =>
                    IF next.bids = <<>>
                    THEN IsOk(r.result)
                    ELSE LET highest == next.bids[1].bid_amount
                         IN  IF bid.bid_amount.value
                                    >= highest.value + next.options.min_raise.value
                             THEN IsOk(r.result)
                             ELSE /\ r.result.tag = "MustPlaceBidOverHighestBid"
                                  /\ r.result.arg = highest

\* a bid of exactly the highest amount plus a positive min_raise was accepted
C8_Witness ==
    /\ sm_state.tag = "TimedAscending"
    /\ sm_state.state.tag = "OnGoing"
    /\ op.tag = "add_bid"
    /\ IsOk(op.result)
    /\ Len(sm_state.state.bids) >= 2
    /\ sm_state.state.options.min_raise.value > 0
    /\ sm_state.state.bids[1].bid_amount.value
         = sm_state.state.bids[2].bid_amount.value
              + sm_state.state.options.min_raise.value

(***************************************************************************)
(* C9: in every reachable timed ascending state get_bids is the accepted   *)
(* bids, most recent first, in descending order of amount.                 *)
(***************************************************************************)
DescendingAmounts(bids) ==
    \A i, j \in 1..Len(bids) :
        i < j => bids[i].bid_amount.value >= bids[j].bid_amount.value

C9_BidsDescending ==
    sm_state.tag = "TimedAscending" =>
        /\ get_bids(sm_state) = accepted
        /\ DescendingAmounts(get_bids(sm_state))

(***************************************************************************)
(* C10: a bid accepted at time t on an OnGoing auction with deadline d     *)
(* makes the deadline max(d, t + time_frame): inc ends the auction at no   *)
(* earlier time and at every time from then on, and d is never shortened.  *)
(***************************************************************************)
C10_AntiSnipe ==
    sm_state.tag = "TimedAscending" =>
        \A bid \in SampleBids :
            LET next == inc(sm_state, bid.at).state
                r == add_bid(bid, sm_state)
            IN  (next.tag = "OnGoing" /\ IsOk(r.result)) =>
                    LET d == next.next_expiry
                        e == bid.at + next.options.time_frame
                        deadline == IF e > d THEN e ELSE d
                    IN  /\ r.state.state.tag = "OnGoing"
                        /\ r.state.state.next_expiry = deadline
                        /\ deadline >= d
                        /\ \A t \in IncTimes :
                              has_ended(inc(r.state, t)) <=> t >= deadline

\* an accepted bid moved the deadline past the auction's expiry
C10_Witness ==
    /\ sm_state.tag = "TimedAscending"
    /\ sm_state.state.tag = "OnGoing"
    /\ op.tag = "add_bid"
    /\ IsOk(op.result)
    /\ sm_state.state.next_expiry > sm_auction.expiry
    /\ sm_state.state.next_expiry
         = accepted[1].at + sm_state.state.options.time_frame

(***************************************************************************)
(* C11: inc on AwaitingStart keeps the state for every now <= start, gives *)
(* OnGoing with no bids and next_expiry = starting_expiry when             *)
(* start < now < starting_expiry, and HasEnded with no bids when           *)
(* now > start and now >= starting_expiry; add_bid on AwaitingStart with   *)
(* bid.at <= start fails with AuctionHasNotStarted and records nothing.    *)
(***************************************************************************)
C11_StartBoundary ==
    (sm_state.tag = "TimedAscending" /\ sm_state.state.tag = "AwaitingStart") =>
        LET s == sm_state.state
        IN  /\ \A now \in IncTimes :
                  LET n == inc(sm_state, now).state
                  IN  /\ now <= s.start => n = s
                      /\ (s.start < now /\ now < s.starting_expiry) =>
                            /\ n.tag = "OnGoing"
                            /\ n.bids = <<>>
                            /\ n.next_expiry = s.starting_expiry
                            /\ n.options = s.options
                      /\ (now > s.start /\ now >= s.starting_expiry) =>
                            /\ n.tag = "HasEnded"
                            /\ n.bids = <<>>
                            /\ n.expiry = s.starting_expiry
                            /\ n.options = s.options
            /\ \A bid \in SampleBids :
                  bid.at <= s.start =>
                      LET r == add_bid(bid, sm_state)
                      IN  /\ r.result.tag = "AuctionHasNotStarted"
                          /\ r.state = sm_state
                          /\ get_bids(r.state) = <<>>

\* a bid was refused because the auction, still AwaitingStart, has not
\* started; a bid at the start itself is among the refused ones
C11_Witness ==
    /\ sm_state.tag = "TimedAscending"
    /\ sm_state.state.tag = "AwaitingStart"
    /\ op.tag = "add_bid"
    /\ op.result.tag = "AuctionHasNotStarted"
    /\ \E bid \in SampleBids :
          /\ bid.at = sm_state.state.start
          /\ add_bid(bid, sm_state).result = op.result
    /\ inc(sm_state, sm_state.state.start + 1).state.tag = "OnGoing"

(***************************************************************************)
(* C12: for the initial state s0 of an auction of either type with         *)
(* starts_at < expiry and every time t, has_ended(inc(s0, t)) is true iff  *)
(* t >= expiry.                                                            *)
(***************************************************************************)
C12_EndedIffExpired ==
    (sm_state = empty_state(sm_auction) /\ sm_auction.starts_at < sm_auction.expiry) =>
        \A t \in IncTimes :
            has_ended(inc(sm_state, t)) <=> t >= sm_auction.expiry

\* inc at the expiry itself ended a sealed-bid auction that was in its
\* initial state, and inc just before the expiry does not end it
C12_Witness ==
    /\ op.tag = "inc"
    /\ sm_state.tag = "SingleSealedBid"
    /\ sm_auction.starts_at < sm_auction.expiry
    /\ has_ended(sm_state)
    /\ sm_state = inc(empty_state(sm_auction), sm_auction.expiry)
    /\ ~has_ended(inc(empty_state(sm_auction), sm_auction.expiry - 1))

(***************************************************************************)
(* C13: in AcceptingBids (after the advance to bid.at) a bid from a bidder *)
(* id that already has a recorded bid fails with AlreadyPlacedBid whatever *)
(* its amount and the first bid stays as it was; the recorded bids are the *)
(* accepted ones, at most one for each bidder id.                          *)
(***************************************************************************)
RecordedBids(s) ==
    IF s.tag = "AcceptingBids"
    THEN {s.bids.entries[k] : k \in DOMAIN s.bids.entries}
    ELSE {s.bids[i] : i \in 1..Len(s.bids)}

C13_OneBidPerBidder ==
    sm_state.tag = "SingleSealedBid" =>
        /\ \A bid \in SampleBids :
              LET next == inc(sm_state, bid.at).state
                  r == add_bid(bid, sm_state)
                  user == user_id(bid.bidder)
              IN  (next.tag = "AcceptingBids" /\ user \in DOMAIN next.bids.entries) =>
                      /\ r.result.tag = "AlreadyPlacedBid"
                      /\ r.state.state = next
                      /\ r.state.state.bids.entries[user] = next.bids.entries[user]
        /\ \A i, j \in 1..Len(accepted) :
              i # j => user_id(accepted[i].bidder) # user_id(accepted[j].bidder)
        /\ RecordedBids(sm_state.state) = {accepted[i] : i \in 1..Len(accepted)}
        /\ sm_state.state.tag = "DisclosingBids" =>
              Len(sm_state.state.bids) = Len(accepted)

\* a second bid of a bidder was refused with AlreadyPlacedBid, and a higher
\* bid of that bidder is refused as well
C13_Witness ==
    /\ sm_state.tag = "SingleSealedBid"
    /\ sm_state.state.tag = "AcceptingBids"
    /\ op.tag = "add_bid"
    /\ op.result.tag = "AlreadyPlacedBid"
    /\ \E bid \in SampleBids :
          LET user == user_id(bid.bidder)
          IN  /\ user \in DOMAIN sm_state.state.bids.entries
              /\ bid.bid_amount.currency = sm_state.state.bids.entries[user].bid_amount.currency
              /\ bid.bid_amount.value > sm_state.state.bids.entries[user].bid_amount.value
              /\ add_bid(bid, sm_state).result.tag = "AlreadyPlacedBid"

(***************************************************************************)
(* C14: inc(now) on AcceptingBids keeps the state when now < expiry and,   *)
(* when now >= expiry, gives DisclosingBids with the same expiry and mode  *)
(* whose bids are the accepted bids, each exactly once, in non-increasing  *)
(* order of amount (amounts of one currency compared by value).            *)
(***************************************************************************)
NonIncreasingAmounts(bids) ==
    \A i, j \in 1..Len(bids) :
        (i < j /\ bids[i].bid_amount.currency = bids[j].bid_amount.currency) =>
            bids[i].bid_amount.value >= bids[j].bid_amount.value

C14_Disclosure ==
    (sm_state.tag = "SingleSealedBid" /\ sm_state.state.tag = "AcceptingBids") =>
        LET s == sm_state.state
        IN  \A now \in IncTimes :
                LET n == inc(sm_state, now).state
                IN  /\ now < s.expiry => n = s
                    /\ now >= s.expiry =>
                          /\ n.tag = "DisclosingBids"
                          /\ n.expiry = s.expiry
                          /\ n.options = s.options
                          /\ Len(n.bids) = Len(accepted)
                          /\ {n.bids[i] : i \in 1..Len(n.bids)}
                                = {accepted[i] : i \in 1..Len(accepted)}
                          /\ \A i, j \in 1..Len(n.bids) :
                                i # j => user_id(n.bids[i].bidder)
                                            # user_id(n.bids[j].bidder)
                          /\ NonIncreasingAmounts(n.bids)

\* inc disclosed two bids of different amounts, the lower one accepted last
C14_Witness ==
    /\ op.tag = "inc"
    /\ sm_state.tag = "SingleSealedBid"
    /\ sm_state.state.tag = "DisclosingBids"
    /\ Len(sm_state.state.bids) = 2
    /\ Len(accepted) = 2
    /\ sm_state.state.bids[1].bid_amount.currency
          = sm_state.state.bids[2].bid_amount.currency
    /\ sm_state.state.bids[1].bid_amount.value
          > sm_state.state.bids[2].bid_amount.value
    /\ accepted[1] = sm_state.state.bids[2]

(***************************************************************************)
(* C15: the disclosed bids of a sealed-bid auction are determined by the   *)
(* sequence of accepted bids alone: they are the accepted bids, oldest     *)
(* first, stably sorted by descending amount, so bids of equal amount      *)
(* stand in the order in which they were accepted and the winner among     *)
(* tied top bids is the one accepted first.                                *)
(***************************************************************************)
RECURSIVE OldestFirst(_)
OldestFirst(bids) ==
    IF bids = <<>> THEN <<>>
    ELSE OldestFirst(Tail(bids)) \o <<Head(bids)>>

C15_TieOrder ==
    (sm_state.tag = "SingleSealedBid" /\ sm_state.state.tag = "DisclosingBids") =>
        LET bids == sm_state.state.bids
            order == OldestFirst(accepted)
        IN  /\ bids = sort_by_amount_desc(order)
            /\ \A i, j \in 1..Len(bids) :
                  (i < j /\ bids[i].bid_amount = bids[j].bid_amount) =>
                      \E k, l \in 1..Len(order) :
                          /\ k < l
                          /\ order[k] = bids[i]
                          /\ order[l] = bids[j]

(***************************************************************************)
(* C16: in DisclosingBids with mode Vickrey and at least one bid (all in   *)
(* the auction's currency) try_get_amount_and_winner gives the bidder of   *)
(* the highest accepted bid as winner; the price is that bid's amount when *)
(* it is the only bid and the highest amount among the other bids, the     *)
(* second-highest, when there are two or more.                             *)
(***************************************************************************)
InAuctionCurrency(bids) ==
    \A i \in 1..Len(bids) : bids[i].bid_amount.currency = sm_auction.auction_currency

\* bid i of bids is a highest one
IsHighest(bids, i) ==
    \A j \in 1..Len(bids) : bids[i].bid_amount.value >= bids[j].bid_amount.value

C17_BlindPricing ==
    ( /\ sm_state.tag = "SingleSealedBid"
      /\ sm_state.state.tag = "DisclosingBids"
      /\ sm_state.state.options = "Blind"
      /\ accepted # <<>>
      /\ InAuctionCurrency(accepted) ) =>
        LET w == try_get_amount_and_winner(sm_state)
        IN  /\ w.tag = "Some"
            /\ \E i \in 1..Len(accepted) :
                  /\ IsHighest(accepted, i)
                  /\ w.v = <<accepted[i].bid_amount, user_id(accepted[i].bidder)>>

\* a Blind auction was disclosed with two bids of different amounts and the
\* price is the higher one, which was accepted first
C17_Witness ==
    /\ sm_state.tag = "SingleSealedBid"
    /\ sm_state.state.tag = "DisclosingBids"
    /\ sm_state.state.options = "Blind"
    /\ op.tag = "inc"
    /\ Len(accepted) = 2
    /\ InAuctionCurrency(accepted)
    /\ accepted[2].bid_amount.value > accepted[1].bid_amount.value
    /\ try_get_amount_and_winner(sm_state)
          = Some(<<accepted[2].bid_amount, user_id(accepted[2].bidder)>>)

C19_WinnerOnlyWhenEnded ==
    /\ ~has_ended(sm_state) => try_get_amount_and_winner(sm_state) = None
    /\ (sm_state.tag = "SingleSealedBid" /\ sm_state.state.tag = "DisclosingBids") =>
          (try_get_amount_and_winner(sm_state) = None <=> accepted = <<>>)

\* an ascending auction that is going on holds a bid above the reserve and
\* reports no winner
C19_Witness ==
    /\ sm_state.tag = "TimedAscending"
    /\ sm_state.state.tag = "OnGoing"
    /\ ~has_ended(sm_state)
    /\ op.tag = "add_bid"
    /\ IsOk(op.result)
    /\ accepted # <<>>
    /\ accepted[1].bid_amount.value > sm_auction.typ.opts.reserve_price.value
    /\ try_get_amount_and_winner(sm_state) = None

(***************************************************************************)
(* C20: validate_bid fails with SellerCannotPlaceBids(bidder id, auction   *)
(* id) whenever the bidder's id is the seller's id, whatever the role or   *)
(* the name of the bidder; through handle no bid of a bidder with the      *)
(* seller's id is accepted, so no stored auction holds one.                *)
(***************************************************************************)
\* users who carry the id of `seller`: the seller, a support user and a
\* buyer under another name
SellerAliases(seller) ==
    { seller, Support(user_id(seller)), BuyerOrSeller(user_id(seller), "Buyer 1") }

\* the bids a stored state holds
BidsHeld(s) ==
    IF s.state.tag = "AcceptingBids" THEN HashMap_values(s.state.bids)
    ELSE get_bids(s)

C20_SellerExcluded ==
    \A id \in DOMAIN app_state :
        LET auction == app_state[id][1]
            held == BidsHeld(app_state[id][2])
        IN  /\ \A u \in SellerAliases(auction.seller), at \in {0, 2},
                 a \in {sek(1), vac(MaxValue)} :
                  LET bid == Bid(id, u, at, a)
                      error == Err("SellerCannotPlaceBids", <<user_id(auction.seller), id>>)
                  IN  /\ validate_bid(bid, auction) = error
                      /\ handle(PlaceBid(at, bid), app_state).result = error
                      /\ handle(PlaceBid(at, bid), app_state).success = None
            /\ \A i \in 1..Len(held) :
                  user_id(held[i].bidder) # user_id(auction.seller)

\* the seller's bid was refused on an auction that is open to bids and
\* holds a buyer's bid
C20_Witness ==
    /\ outcome.command = "PlaceBid"
    /\ outcome.result.tag = "SellerCannotPlaceBids"
    /\ response = "BadRequest"
    /\ outcome.result.arg[2] \in DOMAIN app_state
    /\ ~has_ended(app_state[outcome.result.arg[2]][2])
    /\ Len(BidsHeld(app_state[outcome.result.arg[2]][2])) > 0

(***************************************************************************)
(* C21: for a bidder who is not the seller validate_bid fails with         *)
(* CurrencyConversion(auction currency) when the bid's currency is not the *)
(* auction's and succeeds when it is; handle rejects every bid in another  *)
(* currency and stores none, converted or not.                             *)
(***************************************************************************)
\* bidders who do not carry the seller's id
OtherBidders == {buyer_1, buyer_2, Support("Buyer_1")}

C21_CurrencyChecked ==
    \A id \in DOMAIN app_state :
        LET auction == app_state[id][1]
            held == BidsHeld(app_state[id][2])
        IN  /\ \A u \in OtherBidders, at \in {0, 2}, cur \in Currency :
                  LET bid == Bid(id, u, at, Amount_new(cur, 1))
                      r == handle(PlaceBid(at, bid), app_state)
                  IN  IF cur # auction.auction_currency
                      THEN /\ validate_bid(bid, auction)
                                = Err("CurrencyConversion", auction.auction_currency)
                           /\ r.result = Err("CurrencyConversion", auction.auction_currency)
                           /\ r.success = None
                           /\ r.repository = app_state
                      ELSE validate_bid(bid, auction) = Ok
            /\ \A i \in 1..Len(held) :
                  held[i].bid_amount.currency = auction.auction_currency

\* a buyer's bid in another currency was refused on an auction that is open
\* to bids and holds a bid in its own currency
C21_Witness ==
    /\ outcome.command = "PlaceBid"
    /\ outcome.result.tag = "CurrencyConversion"
    /\ response = "BadRequest"
    /\ \E id \in DOMAIN app_state :
          /\ app_state[id][1].auction_currency = outcome.result.arg
          /\ ~has_ended(app_state[id][2])
          /\ Len(BidsHeld(app_state[id][2])) > 0

(***************************************************************************)
(* C22: for both auction types a PlaceBid whose bidder is the seller or    *)
(* whose currency is not the auction's gets the validator's error at every *)
(* bid time, before the start and after the end included, and when the     *)
(* bidder already has a sealed bid: SellerCannotPlaceBids when the bidder  *)
(* is the seller, whatever the currency, CurrencyConversion otherwise, and *)
(* never an error of the state machine.                                    *)
(***************************************************************************)
StateMachineErrors ==
    {"AuctionHasNotStarted", "AuctionHasEnded", "MustPlaceBidOverHighestBid",
     "AlreadyPlacedBid"}

C22_ValidationFirst ==
    \A id \in DOMAIN app_state :
        LET auction == app_state[id][1]
        IN  \A u \in SellerAliases(auction.seller) \cup OtherBidders,
               at \in Times, cur \in Currency :
                LET bid == Bid(id, u, at, Amount_new(cur, 1))
                    r == handle(PlaceBid(at, bid), app_state)
                    is_seller == user_id(u) = user_id(auction.seller)
                IN  (is_seller \/ cur # auction.auction_currency) =>
                        /\ r.result.tag \notin StateMachineErrors
                        /\ r.result = IF is_seller
                                      THEN Err("SellerCannotPlaceBids", <<user_id(u), id>>)
                                      ELSE Err("CurrencyConversion", auction.auction_currency)

\* a validator's error was returned while a sealed-bid auction holds the
\* bid of a buyer, whose further bid gets AlreadyPlacedBid in the auction's
\* currency and CurrencyConversion in another; the seller's bid after the
\* expiry gets SellerCannotPlaceBids
C22_Witness ==
    /\ outcome.command = "PlaceBid"
    /\ outcome.result.tag \in {"SellerCannotPlaceBids", "CurrencyConversion"}
    /\ \E id \in DOMAIN app_state, u \in {buyer_1, buyer_2} :
          LET auction == app_state[id][1]
              state == app_state[id][2]
          IN  /\ state.tag = "SingleSealedBid"
              /\ state.state.tag = "AcceptingBids"
              /\ user_id(u) \in DOMAIN state.state.bids.entries
              /\ handle(PlaceBid(0, Bid(id, u, 0, Amount_new(auction.auction_currency, 1))),
                        app_state).result.tag = "AlreadyPlacedBid"
              /\ handle(PlaceBid(0, Bid(id, u, 0, Amount_new("DKK", 1))),
                        app_state).result.tag = "CurrencyConversion"
              /\ add_bid(Bid(id, auction.seller, auction.expiry,
                             Amount_new(auction.auction_currency, 1)),
                         state).result.tag = "AuctionHasEnded"
              /\ handle(PlaceBid(0, Bid(id, auction.seller, auction.expiry,
                                        Amount_new(auction.auction_currency, 1))),
                        app_state).result.tag = "SellerCannotPlaceBids"

(***************************************************************************)
(* C23: two runs that apply the same commands from the empty repository    *)
(* get the same outcome for every command and hold equal repositories      *)
(* (equal as the states' PartialEq compares them) whenever the second run  *)
(* has caught up, whatever the hash keys of either run.                    *)
(***************************************************************************)
C23_Replayable ==
    command_log = <<>> =>
        /\ replay_outcome = outcome
        /\ Repository_eq(app_state, replay_state)

\* both runs refused a buyer's second sealed bid on an auction that holds
\* two bids, and the maps of the two runs have different hash keys
C23_Witness ==
    /\ command_log = <<>>
    /\ outcome.command = "PlaceBid"
    /\ outcome.result.tag = "AlreadyPlacedBid"
    /\ replay_outcome = outcome
    /\ \E id \in DOMAIN app_state :
          /\ app_state[id][2].tag = "SingleSealedBid"
          /\ HashMap_len(app_state[id][2].state.bids) = 2
          /\ app_state[id][2].state.bids.hasher
                # replay_state[id][2].state.bids.hasher

(***************************************************************************)
(* C24: whatever the interleaving of the requests, a request that holds    *)
(* the lock is the only one that does and its snapshot is the current      *)
(* repository, so no two requests are evaluated against the same old state *)
(* and both committed; whenever the lock is free the repository is the     *)
(* result of applying the commands one after another in the order in which *)
(* the lock was taken.                                                     *)
(***************************************************************************)
C24_NoLostUpdate ==
    /\ \A w \in Workers :
          requests[w].pc = "locked" =>
              /\ lock = Some(w)
              /\ requests[w].snapshot = app_state
    /\ lock = None => app_state = serial_state
    /\ lock # None =>
          LET r == handle(requests[lock.v].command, app_state)
          IN  serial_state = IF IsOk(r.result) THEN r.repository ELSE app_state

\* two bids on one auction were in flight together: one is committed, the
\* other, built no later than it, waits for the lock
C24_Witness ==
    /\ lock = None
    /\ outcome.command = "PlaceBid"
    /\ IsOk(outcome.result)
    /\ \E w \in Workers :
          /\ requests[w].pc = "built"
          /\ requests[w].command.tag = "PlaceBid"
          /\ requests[w].command.bid.for_auction \in DOMAIN app_state
          /\ LET held == BidsHeld(app_state[requests[w].command.bid.for_auction][2])
             IN  /\ held # <<>>
                 /\ \E i \in 1..Len(held) : held[i].at > requests[w].command.timestamp

(***************************************************************************)
(* C25: handle never removes a key and never changes the Auction record of *)
(* a key; the record of a new key is the one its AddAuction carried.  So   *)
(* after any sequence of calls the key set has only grown and every stored *)
(* auction is the one that created its entry; only the paired state moves. *)
(***************************************************************************)
C25_HandleKeepsAuctions ==
    \A c \in AddAuctionCommands \cup PlaceBidCommands :
        LET r == handle(c, app_state)
        IN  /\ DOMAIN app_state \subseteq DOMAIN r.repository
            /\ \A k \in DOMAIN app_state : r.repository[k][1] = app_state[k][1]
            /\ \A k \in (DOMAIN r.repository) \ (DOMAIN app_state) :
                  /\ c.tag = "AddAuction"
                  /\ k = c.auction.auction_id
                  /\ r.repository[k][1] = c.auction

C25_EntriesPermanent ==
    /\ [] C25_HandleKeepsAuctions
    /\ [][/\ DOMAIN app_state \subseteq DOMAIN app_state'
          /\ \A k \in DOMAIN app_state : app_state'[k][1] = app_state[k][1]]_vars

\* a bid that came after the end was refused on an auction that holds a
\* bid, whose entry and record are still there beside another entry
C25_Witness ==
    /\ outcome.command = "PlaceBid"
    /\ outcome.result.tag = "AuctionHasEnded"
    /\ outcome.result.arg \in DOMAIN app_state
    /\ app_state[outcome.result.arg][1].auction_id = outcome.result.arg
    /\ Len(BidsHeld(app_state[outcome.result.arg][2])) > 0
    /\ Cardinality(DOMAIN app_state) = 2

(***************************************************************************)
(* C26: every timed ascending auction the repository holds has its         *)
(* reserve_price and min_raise in the auction's own currency.              *)
(***************************************************************************)
C26_OptionsInAuctionCurrency ==
    \A id \in DOMAIN app_state :
        LET auction == app_state[id][1]
        IN  auction.typ.tag = "TimedAscending" =>
                /\ auction.typ.opts.reserve_price.currency = auction.auction_currency
                /\ auction.typ.opts.min_raise.currency = auction.auction_currency

(***************************************************************************)
(* C27: Amount's order is the order of the raw values, whatever the        *)
(* currencies: any two amounts the bids of a sealed-bid auction carry      *)
(* compare as their values do, and the disclosed bids, sorted by that      *)
(* order, stand in non-increasing order of value.                          *)
(***************************************************************************)
\* Ordering of two integers: -1 / 0 / 1 for Less / Equal / Greater
ValueOrdering(x, y) == IF x < y THEN -1 ELSE IF x > y THEN 1 ELSE 0

C27_OrderByValue ==
    sm_state.tag = "SingleSealedBid" =>
        /\ \A i, j \in 1..Len(accepted) :
              Amount_cmp(accepted[i].bid_amount, accepted[j].bid_amount)
                  = ValueOrdering(accepted[i].bid_amount.value,
                                  accepted[j].bid_amount.value)
        /\ sm_state.state.tag = "DisclosingBids" =>
              DescendingAmounts(sm_state.state.bids)

\* C28: every Command that is written is read back as an equal Command,
\* whatever its amounts, its users' ids and names and its auction type
C28_RoundTrip ==
    wire_decoded # None => wire_decoded = Decoded(wire_command)

(***************************************************************************)
(* C29: a reserve price of 0 is no reserve: an ended ascending auction     *)
(* whose reserve_price is 0 and which holds an accepted bid has the top    *)
(* bid's amount and bidder as its winner.                                  *)
(***************************************************************************)
C29_ZeroReserveIsNoReserve ==
    (/\ sm_state.tag = "TimedAscending"
     /\ sm_state.state.tag = "HasEnded"
     /\ sm_state.state.options.reserve_price.value = 0
     /\ accepted # <<>>) =>
        try_get_amount_and_winner(sm_state)
            = Some(<<accepted[1].bid_amount, user_id(accepted[1].bidder)>>)

(***************************************************************************)
(* C30: a sealed-bid auction in AcceptingBids returns no bids from         *)
(* get_bids whatever bids it has recorded, and get_bids,                   *)
(* try_get_amount_and_winner and has_ended answer as they do for the state *)
(* with no recorded bid and for the state with one more recorded bid; in   *)
(* DisclosingBids get_bids returns the recorded bids.                      *)
(***************************************************************************)
C30_SealedBidsHidden ==
    sm_state.tag = "SingleSealedBid" =>
        /\ sm_state.state.tag = "AcceptingBids" =>
              LET others ==
                      {[sm_state EXCEPT !.state.bids =
                            HashMap_new(sm_state.state.bids.hasher)]}
                      \cup {[sm_state EXCEPT !.state.bids =
                                HashMap_insert(sm_state.state.bids,
                                               user_id(bid.bidder), bid)] :
                              bid \in SampleBids}
              IN  /\ get_bids(sm_state) = <<>>
                  /\ \A other \in others :
                        /\ get_bids(other) = get_bids(sm_state)
                        /\ try_get_amount_and_winner(other)
                              = try_get_amount_and_winner(sm_state)
                        /\ has_ended(other) = has_ended(sm_state)
        /\ sm_state.state.tag = "DisclosingBids" =>
              {get_bids(sm_state)[i] : i \in 1..Len(get_bids(sm_state))}
                  = {accepted[i] : i \in 1..Len(accepted)}

\* a sealed-bid auction accepted a bid and returns no bids
C30_Witness ==
    /\ sm_state.tag = "SingleSealedBid"
    /\ sm_state.state.tag = "AcceptingBids"
    /\ op.tag = "add_bid"
    /\ IsOk(op.result)
    /\ accepted # <<>>
    /\ HashMap_len(sm_state.state.bids) = Len(accepted)
    /\ get_bids(sm_state) = <<>>

(***************************************************************************)
(* C31: add_bid advances time with the bid's own timestamp first: on every *)
(* state of either type and for every bid, add_bid(s, b) gives the state   *)
(* and the result of add_bid(inc(s, b.at), b); a bid with                  *)
(* start < b.at < expiry on the initial AwaitingStart state is accepted.   *)
(***************************************************************************)
C31_AddBidAdvancesTime ==
    /\ \A bid \in SampleBids :
          add_bid(bid, sm_state) = add_bid(bid, inc(sm_state, bid.at))
    /\ (sm_state.tag = "TimedAscending" /\ sm_state.state.tag = "AwaitingStart") =>
          \A bid \in SampleBids :
              (sm_state.state.start < bid.at
                  /\ bid.at < sm_state.state.starting_expiry) =>
                  /\ IsOk(add_bid(bid, sm_state).result)
                  /\ add_bid(bid, sm_state).state.state.bids = <<bid>>

\* the state is the one add_bid gives on the initial AwaitingStart state for
\* a bid inside the window, and inc with the bid's timestamp changes the
\* initial state
C31_Witness ==
    /\ sm_state.tag = "TimedAscending"
    /\ op.tag = "add_bid"
    /\ IsOk(op.result)
    /\ Len(accepted) = 1
    /\ empty_state(sm_auction).state.tag = "AwaitingStart"
    /\ sm_auction.starts_at < accepted[1].at
    /\ accepted[1].at < sm_auction.expiry
    /\ inc(empty_state(sm_auction), accepted[1].at) # empty_state(sm_auction)
    /\ sm_state = add_bid(accepted[1], empty_state(sm_auction)).state

(***************************************************************************)
(* C32: a rejected bid is not partially applied: whenever add_bid(s, b)    *)
(* returns an error, the state it returns is inc(s, b.at): the bid is not  *)
(* recorded, the bids are those of inc(s, b.at) and the deadline of an     *)
(* ascending auction is not extended.                                      *)
(***************************************************************************)
C32_RejectedBidNotApplied ==
    \A bid \in SampleBids :
        LET r == add_bid(bid, sm_state)
            next == inc(sm_state, bid.at)
        IN  ~IsOk(r.result) =>
                /\ r.state = next
                /\ get_bids(r.state) = get_bids(next)
                /\ BidsHeld(r.state) = BidsHeld(next)
                /\ (r.state.tag = "TimedAscending" /\ r.state.state.tag = "OnGoing") =>
                      r.state.state.next_expiry = next.state.next_expiry

\* a bid that is too low was rejected on an ascending auction that is going
\* on, at a time from which time_frame reaches past the deadline, and the
\* state is as it was
C32_Witness ==
    /\ sm_state.tag = "TimedAscending"
    /\ sm_state.state.tag = "OnGoing"
    /\ op.tag = "add_bid"
    /\ op.result.tag = "MustPlaceBidOverHighestBid"
    /\ \E bid \in SampleBids :
          /\ bid.at + sm_state.state.options.time_frame > sm_state.state.next_expiry
          /\ add_bid(bid, sm_state).result.tag = "MustPlaceBidOverHighestBid"
          /\ add_bid(bid, sm_state).state = sm_state

(***************************************************************************)
(* C33: inc(now) on OnGoing keeps the state when now < next_expiry and,    *)
(* when now >= next_expiry, gives HasEnded with the same bids in the same  *)
(* order and with expiry equal to next_expiry; get_bids is the same before *)
(* and after the auction ends.                                             *)
(***************************************************************************)
C33_EndingKeepsBids ==
    (sm_state.tag = "TimedAscending" /\ sm_state.state.tag = "OnGoing") =>
        \A now \in IncTimes :
            LET next == inc(sm_state, now)
            IN  IF now < sm_state.state.next_expiry
                THEN next = sm_state
                ELSE /\ next.state = HasEnded(sm_state.state.bids,
                                              sm_state.state.next_expiry,
                                              sm_state.state.options)
                     /\ get_bids(next) = get_bids(sm_state)

\* an ascending auction with two accepted bids and an extended deadline ended
\* by inc and holds the accepted bids
C33_Witness ==
    /\ sm_state.tag = "TimedAscending"
    /\ sm_state.state.tag = "HasEnded"
    /\ op.tag = "inc"
    /\ Len(accepted) = 2
    /\ sm_state.state.expiry > sm_auction.expiry
    /\ get_bids(sm_state) = accepted

(***************************************************************************)
(* C34: ascending-auction bids are accepted only inside the active window: *)
(* every accepted bid has a timestamp strictly after the auction's start,  *)
(* and a bid whose timestamp is not strictly between the start and the     *)
(* deadline in force is rejected with AuctionHasNotStarted or              *)
(* AuctionHasEnded.                                                        *)
(***************************************************************************)
\* the deadline in force in a state of an ascending auction
Deadline(s) ==
    CASE s.tag = "AwaitingStart" -> s.starting_expiry
      [] s.tag = "OnGoing" -> s.next_expiry
      [] s.tag = "HasEnded" -> s.expiry

C34_BidsInsideWindow ==
    sm_state.tag = "TimedAscending" =>
        /\ \A i \in 1..Len(accepted) : accepted[i].at > sm_auction.starts_at
        /\ \A bid \in SampleBids :
              (bid.at <= sm_auction.starts_at
                  \/ bid.at >= Deadline(sm_state.state)) =>
                  add_bid(bid, sm_state).result.tag
                      \in {"AuctionHasNotStarted", "AuctionHasEnded"}

(***************************************************************************)
(* C35: a state stored in the repository is never an ended state: every    *)
(* stored state is AwaitingStart, OnGoing or AcceptingBids, so has_ended   *)
(* is false and try_get_amount_and_winner is None on it.                   *)
(***************************************************************************)
C35_StoredStateNotEnded ==
    \A id \in DOMAIN app_state :
        LET state == app_state[id][2]
        IN  /\ state.state.tag \in {"AwaitingStart", "OnGoing", "AcceptingBids"}
            /\ ~has_ended(state)
            /\ try_get_amount_and_winner(state) = None

\* a bid was refused because the auction has ended, and the stored state,
\* which holds a bid, reports no end and no winner while its inc at the time
\* of that bid reports both
C35_Witness ==
    /\ outcome.command = "PlaceBid"
    /\ outcome.result.tag = "AuctionHasEnded"
    /\ \E id \in DOMAIN app_state :
          LET state == app_state[id][2]
          IN  /\ BidsHeld(state) # <<>>
              /\ ~has_ended(state)
              /\ try_get_amount_and_winner(state) = None
              /\ has_ended(inc(state, MaxTime))
              /\ try_get_amount_and_winner(inc(state, MaxTime)) # None

C37_DeadlineAtLeastExpiry ==
    sm_state.tag = "TimedAscending" =>
        /\ Deadline(sm_state.state) >= sm_auction.expiry
        /\ \A now \in IncTimes :
              Deadline(inc(sm_state, now).state) >= Deadline(sm_state.state)
        /\ \A bid \in SampleBids :
              Deadline(add_bid(bid, sm_state).state.state) >= Deadline(sm_state.state)

C37_DeadlineMonotone ==
    /\ [] C37_DeadlineAtLeastExpiry
    /\ [][sm_state.tag = "TimedAscending" =>
              Deadline(sm_state'.state) >= Deadline(sm_state.state)]_vars

\* a bid was accepted with a negative time_frame, which reaches from the
\* bid's time back before the deadline, and the deadline stands
C37_Witness ==
    /\ sm_state.tag = "TimedAscending"
    /\ sm_state.state.tag = "OnGoing"
    /\ op.tag = "add_bid"
    /\ IsOk(op.result)
    /\ accepted # <<>>
    /\ sm_state.state.options.time_frame < 0
    /\ accepted[1].at + sm_state.state.options.time_frame < sm_state.state.next_expiry
    /\ sm_state.state.next_expiry >= sm_auction.expiry

(***************************************************************************)
(* C38: a sealed-bid auction accepts by expiry and bidder only: on a state *)
(* that is not disclosed add_bid accepts a bid iff bid.at < expiry and the *)
(* bidder's id has no recorded bid; a bid timestamped before starts_at is  *)
(* accepted, and AuctionHasNotStarted is never returned.                   *)
(***************************************************************************)
C38_SealedAcceptance ==
    sm_state.tag = "SingleSealedBid" =>
        \A bid \in SampleBids :
            LET r == add_bid(bid, sm_state)
            IN  /\ r.result.tag # "AuctionHasNotStarted"
                /\ sm_state.state.tag = "AcceptingBids" =>
                      (IsOk(r.result) <=>
                          /\ bid.at < sm_state.state.expiry
                          /\ ~HashMap_contains_key(sm_state.state.bids,
                                                   user_id(bid.bidder)))
                /\ (sm_state.state.tag = "AcceptingBids"
                      /\ bid.at < sm_auction.starts_at
                      /\ ~HashMap_contains_key(sm_state.state.bids,
                                               user_id(bid.bidder))) =>
                      IsOk(r.result)

\* a sealed-bid auction accepted a bid timestamped before its starts_at
C38_Witness ==
    /\ sm_state.tag = "SingleSealedBid"
    /\ sm_state.state.tag = "AcceptingBids"
    /\ op.tag = "add_bid"
    /\ IsOk(op.result)
    /\ accepted # <<>>
    /\ accepted[1].at < sm_auction.starts_at
    /\ HashMap_contains_key(sm_state.state.bids, user_id(accepted[1].bidder))

(***************************************************************************)
(* C39: the host commits bids in the order of their timestamps: whatever   *)
(* the interleaving of the place_bid requests, the bids of a stored        *)
(* ascending auction have non-increasing timestamps from head to tail.     *)
(***************************************************************************)
C39_CommittedInTimestampOrder ==
    \A id \in DOMAIN app_state :
        LET state == app_state[id][2]
        IN  state.tag = "TimedAscending" =>
                \A i, j \in 1..Len(get_bids(state)) :
                    i < j => get_bids(state)[i].at >= get_bids(state)[j].at

(***************************************************************************)
(* The state machine of one auction under a clock that grows: the caller   *)
(* passes the time to inc as it advances, and in between calls add_bid     *)
(* with bids stamped at that time.                                         *)
(***************************************************************************)
\* the clock advances and is passed to inc
clock_inc ==
    /\ clock < MaxTime + MaxFrame
    /\ clock' = clock + 1
    /\ sm_state' = inc(sm_state, clock')
    /\ op' = [tag |-> "inc"]
    /\ UNCHANGED <<hash_keys, app_state, outcome, response, sm_auction,
                   accepted, replay_vars, lock, requests, serial_state,
                   codec_vars>>

\* add_bid with a bid stamped at the time of the clock
clock_add_bid(bid) ==
    /\ bid.at = clock
    /\ State_add_bid(bid)

ClockNext ==
    \/ clock_inc
    \/ \E bid \in SampleBids : clock_add_bid(bid)

ClockSpec == StateInit /\ [][ClockNext]_vars /\ WF_vars(clock_inc)

\* the time from which inc ends a state
EndTime(s) ==
    CASE s.tag = "AwaitingStart" -> Max(s.start + 1, s.starting_expiry)
      [] s.tag = "OnGoing" -> s.next_expiry
      [] s.tag = "HasEnded" -> s.expiry
      [] s.tag = "AcceptingBids" -> s.expiry
      [] s.tag = "DisclosingBids" -> s.expiry

(***************************************************************************)
(* C40: every auction is brought to an end by time alone: for every        *)
(* reachable state of either type there is a time T with                   *)
(* has_ended(inc(s, t)) for every t >= T, and in a run whose clock grows   *)
(* the state comes to report has_ended and reports it for ever.            *)
(***************************************************************************)
C40_EndTimeExists ==
    /\ \E T \in IncTimes :
          \A t \in T..(MaxTime + MaxFrame + 1) : has_ended(inc(sm_state, t))
    /\ \A t \in EndTime(sm_state.state)..(MaxTime + MaxFrame + 1) :
          has_ended(inc(sm_state, t))
    /\ \A t \in IncTimes :
          has_ended(inc(sm_state, t)) => has_ended(inc(inc(sm_state, t), t + 1))

C40_EndsByTimeAlone ==
    /\ [] C40_EndTimeExists
    /\ <>[] has_ended(sm_state)

\* the clock passed the deadline of an auction that holds an accepted bid,
\* and the auction has ended
C40_Witness ==
    /\ op.tag = "inc"
    /\ accepted # <<>>
    /\ clock >= EndTime(sm_state.state)
    /\ has_ended(sm_state)

====
